---------------------------- MODULE Spec2Model ----------------------------
(***************************************************************************)
(* A model of the query package: the executor (src/executor.go), the      *)
(* builder (src/expression.go) and the generated PEG recognizer           *)
(* (src/grammar.peg.go).                                                  *)
(*                                                                        *)
(* Five specifications share the variables:                                *)
(*   Spec       one run of Executor.Execute against an external Table and *)
(*              Cursor, whose answers are chosen by the environment.      *)
(*   SpecLive   Spec with weak fairness of the steps of Execute.          *)
(*   SpecParse  one run of Parse on a query text assembled from clauses.  *)
(*   SpecTexts  one run of Parse on further texts: every kind of literal, *)
(*              names like keywords, '*', white space, parentheses,       *)
(*              trailing text.                                            *)
(*   SpecCalls  three calls of Parse, one after the other or interleaved. *)
(***************************************************************************)
EXTENDS Integers, Sequences, FiniteSets, TLC

VARIABLES
    \* ---- Executor.Execute (src/executor.go) ----
    query,        \* the *Query handed to Execute
    pc,           \* where Execute stands
    cur,          \* the Cursor that Table.NewCursor returned
    fi,           \* index of the filter the inner loop is at (1-based)
    resultRows,   \* the local resultRows
    ret,          \* what Execute returned
    calls,        \* history: the calls Execute made on the Table and the Cursor
    visited,      \* history: the rows the cursor yielded, in order
    evals,        \* history: the filter evaluations, in order
    \* ---- Parse (src/expression.go, src/grammar.peg.go) ----
    desc,         \* the clauses the query text was written from
    form,         \* how it was written: the style, and the text after the clauses
    Buffer,       \* p.Buffer, the query text
    ppc,          \* where Parse stands
    tokens,       \* p.tokens32 after Trim
    max,          \* the max token of the parse
    ti,           \* index of the token p.Execute is at (1-based)
    px,           \* p.expression and the local text of p.Execute
    pret,         \* what Parse returned
    \* ---- several calls of Parse (src/expression.go lines 80-91) ----
    callers,      \* each call of Parse: its input, where it stands, its locals
    heap          \* the parser objects the calls work on

execVars == <<query, pc, cur, fi, resultRows, ret, calls, visited, evals>>

parseVars == <<desc, form, Buffer, ppc, tokens, max, ti, px, pret>>

callVars == <<callers, heap>>

vars == <<execVars, parseVars, callVars>>

----------------------------------------------------------------------------
(* Bounds of the model. *)

MaxRows == 3        \* rows one cursor yields at most
MaxFilters == 2     \* filters of a query at most
MaxLimit == 2       \* largest Limit of a query
MaxColumns == 2     \* columns of one clause of a query text at most
MaxConds == 2       \* conditions of a WHERE clause at most
MaxParens == 2      \* pairs of parentheses around a condition at most

----------------------------------------------------------------------------
(* Small helpers on sequences. *)

Min(a, b) == IF a <= b THEN a ELSE b

Take(s, n) == SubSeq(s, 1, Min(n, Len(s)))

SeqsUpTo(S, n) == UNION {[1..k -> S] : k \in 0..n}

----------------------------------------------------------------------------
(* Data model: src/unnamed/part_001 (Query, ColumnDesc, FilterDesc).       *)

ColumnDesc(name, aggregate) == [Name |-> name, Aggregate |-> aggregate]

FilterDesc(column, operator, value) ==
    [Column |-> column, Operator |-> operator, Value |-> value]

\* A Go interface{} value: the dynamic type and the value under it.
\* A float64 is kept as the decimal n * 10^e.
NilVal == [t |-> "nil", n |-> 0, e |-> 0, s |-> ""]
IntVal(n) == [t |-> "int", n |-> n, e |-> 0, s |-> ""]
FloatVal(n, e) == [t |-> "float64", n |-> n, e |-> e, s |-> ""]
StrVal(s) == [t |-> "string", n |-> 0, e |-> 0, s |-> s]

Query(columns, groupBy, filters, orderBy, descending, limit) ==
    [Columns |-> columns, GroupBy |-> groupBy, Filters |-> filters,
     OrderBy |-> orderBy, Descending |-> descending, Limit |-> limit]

ErrNil == "nil"
ErrUnsupported == "query: unsupported query"
ErrOpen == "table: cannot open cursor"
ErrScan == "cursor: scan failed"

----------------------------------------------------------------------------
(* Rows.  A Row is a finite map from field names to values: Fields() is   *)
(* its domain and Get(field) its lookup (resultRow in src/executor.go).   *)

Fields(row) == DOMAIN row

Get(row, field) ==
    IF field \in DOMAIN row
    THEN [v |-> row[field], ok |-> TRUE]
    ELSE [v |-> IntVal(0), ok |-> FALSE]

Row2(id, a) == [f \in {"id", "a"} |-> IF f = "id" THEN id ELSE a]
Row1(a) == [f \in {"a"} |-> a]

\* The rows the environment's cursors yield.
RowSet ==
    { Row2(IntVal(1), IntVal(1)),
      Row2(IntVal(3), IntVal(1)),
      Row2(StrVal("x"), IntVal(2)),
      Row1(IntVal(1)) }

----------------------------------------------------------------------------
(* Filter evaluation.  buildFilters and the Filter type are not among the *)
(* sources; they follow the specification's section 4.3.                  *)

CompareInt(op, x, y) ==
    CASE op = "="  -> x = y
      [] op = "!=" -> x # y
      [] op = "<"  -> x < y
      [] op = "<=" -> x <= y
      [] op = ">"  -> x > y
      [] op = ">=" -> x >= y
      [] OTHER     -> FALSE

Contains(s, sub) ==
    \E i \in 1..(Len(s) - Len(sub) + 1) : SubSeq(s, i, i + Len(sub) - 1) = sub

CompareStr(op, x, y) ==
    CASE op = "="  -> x = y
      [] op = "!=" -> x # y
      [] op = "matches" -> Len(y) = 0 \/ Contains(x, y)
      [] OTHER     -> FALSE

\* Filter.Filter(row): absent column or incompatible types exclude the row.
FilterRow(f, row) ==
    LET got == Get(row, f.Column) IN
    /\ got.ok
    /\ got.v.t = f.Value.t
    /\ IF got.v.t = "int"
       THEN CompareInt(f.Operator, got.v.n, f.Value.n)
       ELSE CompareStr(f.Operator, got.v.s, f.Value.s)

\* buildFilters(query.Filters): one Filter per FilterDesc, in order.
buildFilters(descs) == descs

----------------------------------------------------------------------------
(* Executor.Execute, src/executor.go lines 72-130.                         *)

\* line 76: the test that guards Table.NewCursor
SelectStarReadsCursor_AnyLen(q) ==
    Len(q.Columns) >= 1 /\ q.Columns[1].Name = "*" /\ Len(q.GroupBy) = 0

SelectStarReadsCursor(q) ==
    Len(q.Columns) = 1 /\ q.Columns[1].Name = "*" /\ Len(q.GroupBy) = 0

\* lines 86-95: the switch after the cursor is open
UnsupportedAfterOpen(q) ==
    \/ Len(q.GroupBy) > 0
    \/ Len(q.OrderBy) > 0
    \/ /\ Len(q.Columns) > 0
       /\ \E i \in 1..Len(q.Columns) : q.Columns[i].Aggregate # ""

\* line 120: the limit test after an append
LimitReached_NoSign(q, rows) == Len(rows) >= q.Limit

LimitReached_OffByOne(q, rows) == q.Limit > 0 /\ Len(rows) > q.Limit

LimitReached(q, rows) == q.Limit > 0 /\ Len(rows) = q.Limit

\* lines 112-118: the field-by-field copy of the cursor's row
CopyFields(curRow) == [field \in Fields(curRow) |-> Get(curRow, field).v]

Call(op, r) == [op |-> op, ret |-> r]

Returned(isNil, rows, err) == [nilResult |-> isNil, rows |-> rows, err |-> err]

\* lines 79-81: return nil, err
OpenFailed_Unsupported(err) == Returned(TRUE, <<>>, ErrUnsupported)

OpenFailed(err) == Returned(TRUE, <<>>, err)

\* line 119: resultRows = append(resultRows, resRow)
\* every row of the result is the one map last written
AppendResult_Shared(rows, resRow) == [i \in 1..(Len(rows) + 1) |-> resRow]

AppendResult_Front(rows, resRow) == <<resRow>> \o rows

AppendResult(rows, resRow) == Append(rows, resRow)

\* lines 125-129: the two returns after the scan loop
ReturnAfterScan_KeepsRows(err, rows) ==
    IF err # ErrNil /\ Len(rows) = 0
    THEN Returned(TRUE, <<>>, err)
    ELSE Returned(FALSE, rows, ErrNil)

ReturnAfterScan(err, rows) ==
    IF err # ErrNil
    THEN Returned(TRUE, <<>>, err)
    ELSE Returned(FALSE, rows, ErrNil)

\* endless: the cursor's Next never returns false
NoCursor == [open |-> FALSE, hasRow |-> FALSE, row |-> Row1(IntVal(0)), err |-> ErrNil,
             yielded |-> 0, endless |-> FALSE]

\* lines 76-84, else branch: the projection is not a sole * (or GROUP BY is set)
RejectShape ==
    /\ pc = "start"
    /\ ~SelectStarReadsCursor(query)
    /\ ret' = Returned(TRUE, <<>>, ErrUnsupported)
    /\ pc' = "done"
    /\ UNCHANGED <<query, cur, fi, resultRows, calls, visited, evals, parseVars, callVars>>

\* lines 76-81: e.table.NewCursor(), whose answer the table chooses: an
\* error, a cursor that ends, or a cursor that never ends
OpenCursor ==
    /\ pc = "start"
    /\ SelectStarReadsCursor(query)
    /\ \E err \in {ErrNil, ErrOpen} :
         /\ calls' = Append(calls, Call("NewCursor", err))
         /\ IF err # ErrNil
            THEN /\ ret' = OpenFailed(err)
                 /\ pc' = "done"
                 /\ UNCHANGED cur
            ELSE /\ \E endless \in BOOLEAN :
                        cur' = [NoCursor EXCEPT !.open = TRUE, !.endless = endless]
                 /\ pc' = "opened"
                 /\ UNCHANGED ret
    /\ UNCHANGED <<query, fi, resultRows, visited, evals, parseVars, callVars>>

\* lines 86-102: the second validation, buildFilters, resultRows := []
ValidateOpened_ReadsRow ==
    /\ pc = "opened"
    /\ IF UnsupportedAfterOpen(query)
       THEN /\ ret' = Returned(TRUE, <<>>, ErrUnsupported)
            /\ pc' = "done"
       ELSE /\ pc' = "next"
            /\ UNCHANGED ret
    /\ resultRows' = <<>>
    /\ calls' = Append(calls, Call("Row", "-"))
    /\ UNCHANGED <<query, cur, fi, visited, evals, parseVars, callVars>>

ValidateOpened ==
    /\ pc = "opened"
    /\ IF UnsupportedAfterOpen(query)
       THEN /\ ret' = Returned(TRUE, <<>>, ErrUnsupported)
            /\ pc' = "done"
       ELSE /\ pc' = "next"
            /\ UNCHANGED ret
    /\ resultRows' = <<>>
    /\ UNCHANGED <<query, cur, fi, calls, visited, evals, parseVars, callVars>>

\* line 104: cur.Next().  The cursor yields a row or ends, and may record an
\* error either way.  A cursor yields MaxRows rows at most within the model:
\* after them a cursor that ends returns false, and the call on an endless
\* cursor is not followed further (Execute stays in the loop).
CallNext ==
    /\ pc = "next"
    /\ \E e \in {cur.err, ErrScan} :
         \/ \E r \in RowSet :
              /\ cur.yielded < MaxRows
              /\ cur' = [cur EXCEPT !.hasRow = TRUE, !.row = r, !.err = e,
                                    !.yielded = @ + 1]
              /\ visited' = Append(visited, r)
              /\ calls' = Append(calls, Call("Next", "true"))
              /\ fi' = 1
              /\ pc' = "filter"
         \/ /\ ~cur.endless
            /\ cur' = [cur EXCEPT !.hasRow = FALSE, !.err = e]
            /\ calls' = Append(calls, Call("Next", "false"))
            /\ pc' = "err"
            /\ UNCHANGED <<visited, fi>>
    /\ UNCHANGED <<query, resultRows, ret, evals, parseVars, callVars>>

\* lines 105-109: one turn of the inner loop, f.Filter(cur.Row())
EvalFilter_NoShortCircuit ==
    /\ pc = "filter"
    /\ fi <= Len(buildFilters(query.Filters))
    /\ LET ok == FilterRow(buildFilters(query.Filters)[fi], cur.row) IN
         /\ calls' = Append(calls, Call("Row", "-"))
         /\ evals' = Append(evals, [row |-> Len(visited), filter |-> fi, ok |-> ok])
         /\ fi' = fi + 1 /\ pc' = "filter"
    /\ UNCHANGED <<query, cur, resultRows, ret, visited, parseVars, callVars>>

EvalFilter ==
    /\ pc = "filter"
    /\ fi <= Len(buildFilters(query.Filters))
    /\ LET ok == FilterRow(buildFilters(query.Filters)[fi], cur.row) IN
         /\ calls' = Append(calls, Call("Row", "-"))
         /\ evals' = Append(evals, [row |-> Len(visited), filter |-> fi, ok |-> ok])
         /\ IF ok
            THEN fi' = fi + 1 /\ pc' = "filter"
            ELSE fi' = fi /\ pc' = "next"
    /\ UNCHANGED <<query, cur, resultRows, ret, visited, parseVars, callVars>>

\* lines 111-122: copy the row, append it, test the limit
AppendRow ==
    /\ pc = "filter"
    /\ fi > Len(buildFilters(query.Filters))
    /\ calls' = Append(calls, Call("Row", "-"))
    /\ resultRows' = AppendResult(resultRows, CopyFields(cur.row))
    /\ pc' = IF LimitReached(query, resultRows') THEN "err" ELSE "next"
    /\ UNCHANGED <<query, cur, fi, ret, visited, evals, parseVars, callVars>>

\* lines 125-129: cur.Err(), asked once more when it is not nil
CheckErr ==
    /\ pc = "err"
    /\ calls' = IF cur.err # ErrNil
                THEN calls \o <<Call("Err", cur.err), Call("Err", cur.err)>>
                ELSE Append(calls, Call("Err", cur.err))
    /\ ret' = ReturnAfterScan(cur.err, resultRows)
    /\ pc' = "done"
    /\ UNCHANGED <<query, cur, fi, resultRows, visited, evals, parseVars, callVars>>

----------------------------------------------------------------------------
(* The recognizer generated from the grammar: src/grammar.peg.go.          *)
(*                                                                        *)
(* The generated code is one function per rule, each an instance of the   *)
(* generator's templates for sequence, ordered choice, e?, e*, e+, !e,    *)
(* <e> and a rule call.  The model keeps the grammar as data (one         *)
(* definition per rule, after the rule's comment in the source) and the   *)
(* templates as one matcher, Match.                                       *)
(*                                                                        *)
(* A text is a sequence of one-character strings.  A recognizer state is  *)
(* [ok, pos, toks, max]: ok is the result of the last match, pos the      *)
(* shared position (0-based, as in the code), toks the token tree up to   *)
(* tokenIndex, max the token kept for the error report.  Two histories    *)
(* ride along: adds, every token add was called with, and fails, every    *)
(* rule call that returned false with the span it had scanned.            *)

Chars(str) == [i \in 1..Len(str) |-> SubSeq(str, i, i)]

CharSet(str) == {SubSeq(str, i, i) : i \in 1..Len(str)}

\* const endSymbol rune = 1114112: no character of a text
endSymbol == "<end>"

\* ---- grammar expressions ----
Node(k, a, c, n) == [k |-> k, a |-> a, c |-> c, n |-> n]

ESeq(es)    == Node("seq", es, {}, "")        \* e1 e2 ...
EAlt(es)    == Node("alt", es, {}, "")        \* e1 / e2 / ...
EOpt(e)     == Node("opt", <<e>>, {}, "")     \* e?
EStar(e)    == Node("star", <<e>>, {}, "")    \* e*
EPlus(e)    == Node("plus", <<e>>, {}, "")    \* e+
ENot(e)     == Node("not", <<e>>, {}, "")     \* !e
EText(e)    == Node("text", <<e>>, {}, "")    \* <e>
EChr(c)     == Node("chr", <<>>, {c}, "")     \* 'c'
EClass(set) == Node("chr", <<>>, set, "")     \* [a-z], or a choice of characters
EDot        == Node("dot", <<>>, {}, "")      \* .
R(name)    == Node("ref", <<>>, {}, name)    \* a call of rule name

\* 'c1' 'c2' ... : the characters of a word, one after the other
Word(str) == ESeq([i \in 1..Len(str) |-> EChr(SubSeq(str, i, i))])

\* ('s' / 'S') ('e' / 'E') ... : a keyword in either case, letter by letter
WordAnyCase(lower, upper) ==
    ESeq([i \in 1..Len(lower) |-> EClass({SubSeq(lower, i, i), SubSeq(upper, i, i)})])

LowerAZ == CharSet("abcdefghijklmnopqrstuvwxyz")
UpperAZ == CharSet("ABCDEFGHIJKLMNOPQRSTUVWXYZ")
Digit09 == CharSet("0123456789")
Digit07 == CharSet("01234567")
LowerAF == CharSet("abcdef")
UpperAF == CharSet("ABCDEF")

\* ---- the rules, src/grammar.peg.go lines 439-2723 ----

\* 0 Query <- <(_ ColumnExpr? _ WhereExpr? _ GroupExpr? _ OrderByExpr? _ LimitExpr? _ !.)>
ruleQuery_SelectRequired ==
    ESeq(<< R("_"), R("ColumnExpr"), R("_"), EOpt(R("WhereExpr")), R("_"),
           EOpt(R("GroupExpr")), R("_"), EOpt(R("OrderByExpr")), R("_"),
           EOpt(R("LimitExpr")), R("_"), ENot(EDot) >>)

ruleQuery_NoEnd ==
    ESeq(<< R("_"), EOpt(R("ColumnExpr")), R("_"), EOpt(R("WhereExpr")), R("_"),
            EOpt(R("GroupExpr")), R("_"), EOpt(R("OrderByExpr")), R("_"),
            EOpt(R("LimitExpr")), R("_") >>)

ruleQuery ==
    ESeq(<< R("_"), EOpt(R("ColumnExpr")), R("_"), EOpt(R("WhereExpr")), R("_"),
           EOpt(R("GroupExpr")), R("_"), EOpt(R("OrderByExpr")), R("_"),
           EOpt(R("LimitExpr")), R("_"), ENot(EDot) >>)

\* 1 ColumnExpr <- <(('s' / 'S') ... ('t' / 'T') _ Action0 Columns)>
ruleColumnExpr ==
    ESeq(<< WordAnyCase("select", "SELECT"), R("_"), R("Action0"), R("Columns") >>)

\* 2 GroupExpr <- <(('g' / 'G') ... ' ' ('b' / 'B') ('y' / 'Y') _ Action1 Columns)>
ruleGroupExpr ==
    ESeq(<< WordAnyCase("group by", "GROUP BY"), R("_"), R("Action1"), R("Columns") >>)

\* 3 WhereExpr <- <(('w' / 'W') ... ('e' / 'E') _ LogicExpr (_ COMMA? LogicExpr)*)>
ruleWhereExpr ==
    ESeq(<< WordAnyCase("where", "WHERE"), R("_"), R("LogicExpr"),
           EStar(ESeq(<< R("_"), EOpt(R("COMMA")), R("LogicExpr") >>)) >>)

\* 4 OrderByExpr <- <(('o' / 'O') ... ' ' ('b' / 'B') ('y' / 'Y') _ Action2 Columns Descending?)>
ruleOrderByExpr ==
    ESeq(<< WordAnyCase("order by", "ORDER BY"), R("_"), R("Action2"), R("Columns"),
           EOpt(R("Descending")) >>)

\* 5 LimitExpr <- <(('l' / 'L') ... ('t' / 'T') _ <Unsigned> Action3)>
ruleLimitExpr ==
    ESeq(<< WordAnyCase("limit", "LIMIT"), R("_"), EText(R("Unsigned")), R("Action3") >>)

\* 6 Columns <- <(Column (COMMA Column)*)>
ruleColumns == ESeq(<< R("Column"), EStar(ESeq(<< R("COMMA"), R("Column") >>)) >>)

\* 7 Column <- <(Action4 (ColumnAggregation / (<Identifier> _ Action5) / (<'*'> _ Action6)))>
ruleColumn_NoAddColumn ==
    EAlt(<< R("ColumnAggregation"),
           ESeq(<< EText(R("Identifier")), R("_"), R("Action5") >>),
           ESeq(<< EText(EChr("*")), R("_"), R("Action6") >>) >>)

ruleColumn ==
    ESeq(<< R("Action4"),
           EAlt(<< R("ColumnAggregation"),
                  ESeq(<< EText(R("Identifier")), R("_"), R("Action5") >>),
                  ESeq(<< EText(EChr("*")), R("_"), R("Action6") >>) >>) >>)

\* 8 ColumnAggregation <- <(<Identifier> Action7 LPAR <Identifier> RPAR Action8)>
ruleColumnAggregation_StarArgument ==
    ESeq(<< EText(R("Identifier")), R("Action7"), R("LPAR"),
            EText(EAlt(<< R("Identifier"), EChr("*") >>)), R("RPAR"), R("Action8") >>)

ruleColumnAggregation ==
    ESeq(<< EText(R("Identifier")), R("Action7"), R("LPAR"), EText(R("Identifier")),
           R("RPAR"), R("Action8") >>)

\* 9 LogicExpr <- <((LPAR LogicExpr RPAR) / (Action9 FilterKey _ FilterOperator _ FilterValue))>
ruleLogicExpr_FilterPerParen ==
    EAlt(<< ESeq(<< R("Action9"), R("LPAR"), R("LogicExpr"), R("RPAR") >>),
           ESeq(<< R("Action9"), R("FilterKey"), R("_"), R("FilterOperator"), R("_"),
                  R("FilterValue") >>) >>)

ruleLogicExpr ==
    EAlt(<< ESeq(<< R("LPAR"), R("LogicExpr"), R("RPAR") >>),
           ESeq(<< R("Action9"), R("FilterKey"), R("_"), R("FilterOperator"), R("_"),
                  R("FilterValue") >>) >>)

\* 10 OPERATOR <- <('=' / ('!' '=') / ('<' '=') / ('>' '=') / '<' / '>' / (('m' / 'M') ... ('s' / 'S')))>
ruleOPERATOR ==
    EAlt(<< EChr("="), Word("!="), Word("<="), Word(">="), EChr("<"), EChr(">"),
           WordAnyCase("matches", "MATCHES") >>)

\* 11 FilterKey <- <(<Identifier> Action10)>
ruleFilterKey == ESeq(<< EText(R("Identifier")), R("Action10") >>)

\* 12 FilterOperator <- <(<OPERATOR> Action11)>
ruleFilterOperator == ESeq(<< EText(R("OPERATOR")), R("Action11") >>)

\* 13 FilterValue <- <((<Float> Action12) / (<Integer> Action13) / (<String> Action14))>
ruleFilterValue_IntegerFirst ==
    EAlt(<< ESeq(<< EText(R("Integer")), R("Action13") >>),
            ESeq(<< EText(R("Float")), R("Action12") >>),
            ESeq(<< EText(R("String")), R("Action14") >>) >>)

ruleFilterValue ==
    EAlt(<< ESeq(<< EText(R("Float")), R("Action12") >>),
           ESeq(<< EText(R("Integer")), R("Action13") >>),
           ESeq(<< EText(R("String")), R("Action14") >>) >>)

\* 14 Descending <- <(('d' / 'D') ('e' / 'E') ('s' / 'S') ('c' / 'C') Action15)>
ruleDescending == ESeq(<< WordAnyCase("desc", "DESC"), R("Action15") >>)

\* 15 String <- <('"' <StringChar*> '"')+>
ruleString == EPlus(ESeq(<< EChr("\""), EText(EStar(R("StringChar"))), EChr("\"") >>))

\* 16 StringChar <- <(Escape / (!('"' / '\n' / '\\') .))>
ruleStringChar ==
    EAlt(<< R("Escape"), ESeq(<< ENot(EAlt(<< EChr("\""), EChr("\n"), EChr("\\") >>)), EDot >>) >>)

\* 17 Escape <- <(SimpleEscape / OctalEscape / HexEscape / UniversalCharacter)>
ruleEscape ==
    EAlt(<< R("SimpleEscape"), R("OctalEscape"), R("HexEscape"), R("UniversalCharacter") >>)

\* 18 SimpleEscape <- <('\\' ('\'' / '"' / '?' / '\\' / 'a' / 'b' / 'f' / 'n' / 'r' / 't' / 'v'))>
ruleSimpleEscape == ESeq(<< EChr("\\"), EClass(CharSet("'\"?\\abfnrtv")) >>)

\* 19 OctalEscape <- <('\\' [0-7] [0-7]? [0-7]?)>
ruleOctalEscape ==
    ESeq(<< EChr("\\"), EClass(Digit07), EOpt(EClass(Digit07)), EOpt(EClass(Digit07)) >>)

\* 20 HexEscape <- <('\\' 'x' HexDigit+)>
ruleHexEscape == ESeq(<< EChr("\\"), EChr("x"), EPlus(R("HexDigit")) >>)

\* 21 UniversalCharacter <- <(('\\' 'u' HexQuad) / ('\\' 'U' HexQuad HexQuad))>
ruleUniversalCharacter ==
    EAlt(<< ESeq(<< EChr("\\"), EChr("u"), R("HexQuad") >>),
           ESeq(<< EChr("\\"), EChr("U"), R("HexQuad"), R("HexQuad") >>) >>)

\* 22 HexQuad <- <(HexDigit HexDigit HexDigit HexDigit)>
ruleHexQuad == ESeq(<< R("HexDigit"), R("HexDigit"), R("HexDigit"), R("HexDigit") >>)

\* 23 HexDigit <- <([a-f] / [A-F] / [0-9])>
ruleHexDigit == EClass(LowerAF \cup UpperAF \cup Digit09)

\* 24 Unsigned <- <[0-9]+>
ruleUnsigned == EPlus(EClass(Digit09))

\* 25 Sign <- <('-' / '+')>
ruleSign == EClass({"-", "+"})

\* 26 Integer <- <<(Sign? Unsigned)>>
ruleInteger == EText(ESeq(<< EOpt(R("Sign")), R("Unsigned") >>))

\* 27 Float <- <(Integer ('.' Unsigned)? (('e' / 'E') Integer)?)>
ruleFloat ==
    ESeq(<< R("Integer"), EOpt(ESeq(<< EChr("."), R("Unsigned") >>)),
           EOpt(ESeq(<< EClass({"e", "E"}), R("Integer") >>)) >>)

\* 28 Identifier <- <(!Keyword <(([a-z] / [A-Z] / '_') IdChar*)>)>
ruleIdentifier ==
    ESeq(<< ENot(R("Keyword")),
           EText(ESeq(<< EClass(LowerAZ \cup UpperAZ \cup {"_"}), EStar(R("IdChar")) >>)) >>)

\* 29 IdChar <- <([a-z] / [A-Z] / [0-9] / '_')>
ruleIdChar == EClass(LowerAZ \cup UpperAZ \cup Digit09 \cup {"_"})

\* 30 Keyword <- <((('s' 'e' 'l' 'e' 'c' 't') / ('g' 'r' 'o' 'u' 'p' ' ' 'b' 'y') /
\*    ('f' 'i' 'l' 't' 'e' 'r' 's') / ('o' 'r' 'd' 'e' 'r' ' ' 'b' 'y') /
\*    ('d' 'e' 's' 'c') / ('l' 'i' 'm' 'i' 't')) !IdChar)>
ruleKeyword ==
    ESeq(<< EAlt(<< Word("select"), Word("group by"), Word("filters"), Word("order by"),
                  Word("desc"), Word("limit") >>),
           ENot(R("IdChar")) >>)

\* 31 _ <- <(' ' / '\t' / ('\r' '\n') / '\n' / '\r')*>
rule__NoCarriageReturn == EStar(EAlt(<< EChr(" "), EChr("\t"), EChr("\n") >>))

rule_ == EStar(EAlt(<< EChr(" "), EChr("\t"), Word("\r\n"), EChr("\n"), EChr("\r") >>))

\* 32 LPAR <- <(_ '(' _)>
ruleLPAR == ESeq(<< R("_"), EChr("("), R("_") >>)

\* 33 RPAR <- <(_ ')' _)>
ruleRPAR == ESeq(<< R("_"), EChr(")"), R("_") >>)

\* 34 COMMA <- <(_ ',' _)>
ruleCOMMA == ESeq(<< R("_"), EChr(","), R("_") >>)

\* 36-52 ActionN <- <{ ... }> : nothing to match
ruleAction == ESeq(<<>>)

\* _rules: the rule of each name
rules(name) ==
    CASE name = "Query" -> ruleQuery
      [] name = "ColumnExpr" -> ruleColumnExpr
      [] name = "GroupExpr" -> ruleGroupExpr
      [] name = "WhereExpr" -> ruleWhereExpr
      [] name = "OrderByExpr" -> ruleOrderByExpr
      [] name = "LimitExpr" -> ruleLimitExpr
      [] name = "Columns" -> ruleColumns
      [] name = "Column" -> ruleColumn
      [] name = "ColumnAggregation" -> ruleColumnAggregation
      [] name = "LogicExpr" -> ruleLogicExpr
      [] name = "OPERATOR" -> ruleOPERATOR
      [] name = "FilterKey" -> ruleFilterKey
      [] name = "FilterOperator" -> ruleFilterOperator
      [] name = "FilterValue" -> ruleFilterValue
      [] name = "Descending" -> ruleDescending
      [] name = "String" -> ruleString
      [] name = "StringChar" -> ruleStringChar
      [] name = "Escape" -> ruleEscape
      [] name = "SimpleEscape" -> ruleSimpleEscape
      [] name = "OctalEscape" -> ruleOctalEscape
      [] name = "HexEscape" -> ruleHexEscape
      [] name = "UniversalCharacter" -> ruleUniversalCharacter
      [] name = "HexQuad" -> ruleHexQuad
      [] name = "HexDigit" -> ruleHexDigit
      [] name = "Unsigned" -> ruleUnsigned
      [] name = "Sign" -> ruleSign
      [] name = "Integer" -> ruleInteger
      [] name = "Float" -> ruleFloat
      [] name = "Identifier" -> ruleIdentifier
      [] name = "IdChar" -> ruleIdChar
      [] name = "Keyword" -> ruleKeyword
      [] name = "_" -> rule_
      [] name = "LPAR" -> ruleLPAR
      [] name = "RPAR" -> ruleRPAR
      [] name = "COMMA" -> ruleCOMMA
      [] OTHER -> ruleAction

\* ---- the generated code's templates ----

token32(rule, begin, end) == [pegRule |-> rule, begin |-> begin, end |-> end]

\* parser.Init, reset: max = token32{}, position, tokenIndex = 0, 0
StartState ==
    [ok |-> TRUE, pos |-> 0, toks |-> <<>>, max |-> token32("Unknown", 0, 0),
     adds |-> <<>>, fails |-> <<>>]

\* reset: the buffer is the text's runes and the end symbol after them
ResetBuffer(text) ==
    IF Len(text) = 0 \/ text[Len(text)] # endSymbol
    THEN Append(text, endSymbol)
    ELSE text

\* add(rule, begin): the token at tokenIndex, and max when the token is not
\* empty and ends beyond max
add_Front(s, rule, begin) ==
    [s EXCEPT !.toks = <<token32(rule, begin, s.pos)>> \o @,
              !.max = IF begin # s.pos /\ s.pos > @.end
                      THEN token32(rule, begin, s.pos)
                      ELSE @,
              !.adds = Append(@, token32(rule, begin, s.pos))]

add_MaxAlways(s, rule, begin) ==
    [s EXCEPT !.toks = Append(@, token32(rule, begin, s.pos)),
              !.max = IF begin # s.pos THEN token32(rule, begin, s.pos) ELSE @,
              !.adds = Append(@, token32(rule, begin, s.pos))]

add(s, rule, begin) ==
    [s EXCEPT !.toks = Append(@, token32(rule, begin, s.pos)),
              !.max = IF begin # s.pos /\ s.pos > @.end
                      THEN token32(rule, begin, s.pos)
                      ELSE @,
              !.adds = Append(@, token32(rule, begin, s.pos))]

\* goto lN
Fail(s) == [s EXCEPT !.ok = FALSE]

\* position, tokenIndex = positionN, tokenIndexN (max is not restored)
Restore_KeepsTokens(s0, s) == [s EXCEPT !.ok = TRUE, !.pos = s0.pos]

Restore(s0, s) == [s EXCEPT !.ok = TRUE, !.pos = s0.pos, !.toks = s0.toks]

\* lN: position, tokenIndex = positionN, tokenIndexN; return false:
\* the rule that began at s0 has failed at the position of s
FailRule(s0, s, rule) ==
    Fail(Restore(s0, [s EXCEPT !.fails = Append(@, token32(rule, s0.pos, s.pos))]))

\* if buffer[position] != rune(c) { goto lN }; position++
\* if c := buffer[position]; c < lower || c > upper { goto lN }; position++
matchChar(b, s, set) ==
    IF b[s.pos + 1] \in set THEN [s EXCEPT !.pos = @ + 1] ELSE Fail(s)

\* matchDot
matchDot(b, s) ==
    IF b[s.pos + 1] # endSymbol THEN [s EXCEPT !.pos = @ + 1] ELSE Fail(s)

RECURSIVE Match(_, _, _)
RECURSIVE MatchSeq(_, _, _, _)
RECURSIVE MatchAlt(_, _, _, _)
RECURSIVE MatchStar(_, _, _)

\* e: the match of e from state s.  A failed match leaves position and
\* tokenIndex to the construct that catches the failure.
Match(e, b, s) ==
    CASE e.k = "chr"  -> matchChar(b, s, e.c)
      [] e.k = "dot"  -> matchDot(b, s)
      [] e.k = "seq"  -> MatchSeq(e.a, 1, b, s)
      [] e.k = "alt"  -> MatchAlt(e.a, 1, b, s)
      [] e.k = "opt"  -> LET r == Match(e.a[1], b, s) IN
                         IF r.ok THEN r ELSE Restore(s, r)
      [] e.k = "star" -> MatchStar(e.a[1], b, s)
      [] e.k = "plus" -> LET r == Match(e.a[1], b, s) IN
                         IF r.ok THEN MatchStar(e.a[1], b, r) ELSE r
      [] e.k = "not"  -> LET r == Match(e.a[1], b, s) IN
                         IF r.ok THEN Fail(r) ELSE Restore(s, r)
      [] e.k = "text" -> LET r == Match(e.a[1], b, s) IN
                         IF r.ok THEN add(r, "PegText", s.pos) ELSE r
      [] e.k = "ref"  -> LET r == Match(rules(e.n), b, s) IN
                         IF r.ok THEN add(r, e.n, s.pos) ELSE FailRule(s, r, e.n)

\* e1 e2 ... : the first failure ends the sequence
MatchSeq(es, i, b, s) ==
    IF i > Len(es) THEN s
    ELSE LET r == Match(es[i], b, s) IN
         IF r.ok THEN MatchSeq(es, i + 1, b, r) ELSE r

\* e1 / e2 / ... : each alternative starts from the saved position and
\* tokenIndex; the first match is taken, and the failure of the last
\* alternative is the failure of the choice
MatchAlt(es, i, b, s) ==
    LET r == Match(es[i], b, s) IN
    IF r.ok \/ i = Len(es) THEN r ELSE MatchAlt(es, i + 1, b, Restore(s, r))

\* e* : a failed turn is undone and ends the loop
MatchStar(e, b, s) ==
    LET r == Match(e, b, s) IN
    IF r.ok THEN MatchStar(e, b, r) ELSE Restore(s, r)

\* parser.Init, p.parse: rule 1 (Query) from the reset state
parse(text) == Match(R("Query"), ResetBuffer(text), StartState)

----------------------------------------------------------------------------
(* Conversions of the captured text: strconv and strings, as the builder   *)
(* uses them (src/expression.go lines 58-78).                              *)

\* string(_buffer[begin:end])
RECURSIVE Join(_)
Join(chars) == IF Len(chars) = 0 THEN "" ELSE Head(chars) \o Join(Tail(chars))

Slice(b, begin, end) == SubSeq(b, begin + 1, end)

DigitValue(c) == CHOOSE d \in 0..9 : SubSeq("0123456789", d + 1, d + 1) = c

AllDigits(chars) == Len(chars) > 0 /\ \A i \in 1..Len(chars) : chars[i] \in Digit09

RECURSIVE DecimalValue(_)
DecimalValue(chars) ==
    IF Len(chars) = 0 THEN 0
    ELSE 10 * DecimalValue(SubSeq(chars, 1, Len(chars) - 1)) + DigitValue(chars[Len(chars)])

\* the index of the first character of chars that is in set, 0 if none
IndexAny(chars, set) ==
    IF \E i \in 1..Len(chars) : chars[i] \in set
    THEN CHOOSE i \in 1..Len(chars) : chars[i] \in set /\ \A j \in 1..(i - 1) : chars[j] \notin set
    ELSE 0

\* strconv.ParseInt(s, 10, 64): [v, ok]; a syntax error gives 0
ParseInt(chars) ==
    LET signed == Len(chars) > 0 /\ chars[1] \in {"-", "+"}
        digits == IF signed THEN Tail(chars) ELSE chars
    IN IF AllDigits(digits)
       THEN [v |-> IF signed /\ chars[1] = "-" THEN 0 - DecimalValue(digits) ELSE DecimalValue(digits),
             ok |-> TRUE]
       ELSE [v |-> 0, ok |-> FALSE]

\* strconv.Atoi(s)
Atoi(chars) == ParseInt(chars)

\* a decimal floating-point value m * 10^e, m without trailing zeros
RECURSIVE Normalize(_, _)
Normalize(m, e) ==
    IF m = 0 THEN [m |-> 0, e |-> 0]
    ELSE IF m % 10 = 0 THEN Normalize(m \div 10, e + 1)
    ELSE [m |-> m, e |-> e]

\* strconv.ParseFloat(s, 64) on sign? digits ('.' digits)? (('e'/'E') sign? digits)?
\* [m, e, ok]: the value m * 10^e; a syntax error gives 0
ParseFloat(chars) ==
    LET ei     == IndexAny(chars, {"e", "E"})
        mant   == IF ei = 0 THEN chars ELSE SubSeq(chars, 1, ei - 1)
        expo   == IF ei = 0 THEN <<"0">> ELSE SubSeq(chars, ei + 1, Len(chars))
        signed == Len(mant) > 0 /\ mant[1] \in {"-", "+"}
        body   == IF signed THEN Tail(mant) ELSE mant
        di     == IndexAny(body, {"."})
        whole  == IF di = 0 THEN body ELSE SubSeq(body, 1, di - 1)
        frac   == IF di = 0 THEN <<>> ELSE SubSeq(body, di + 1, Len(body))
        ex     == ParseInt(expo)
        okSyn  == /\ ex.ok
                  /\ Len(whole) + Len(frac) > 0
                  /\ \A i \in 1..Len(whole) : whole[i] \in Digit09
                  /\ \A i \in 1..Len(frac) : frac[i] \in Digit09
        mag    == DecimalValue(whole \o frac)
        val    == Normalize(IF signed /\ mant[1] = "-" THEN 0 - mag ELSE mag,
                            ex.v - Len(frac))
    IN IF okSyn THEN [m |-> val.m, e |-> val.e, ok |-> TRUE]
       ELSE [m |-> 0, e |-> 0, ok |-> FALSE]

\* strings.Trim(value, `"`): every leading and trailing quote is cut
RECURSIVE TrimLeft(_, _)
TrimLeft(chars, c) ==
    IF Len(chars) > 0 /\ Head(chars) = c THEN TrimLeft(Tail(chars), c) ELSE chars

RECURSIVE TrimRight(_, _)
TrimRight(chars, c) ==
    IF Len(chars) > 0 /\ chars[Len(chars)] = c
    THEN TrimRight(SubSeq(chars, 1, Len(chars) - 1), c)
    ELSE chars

Trim(chars, c) == TrimRight(TrimLeft(chars, c), c)

----------------------------------------------------------------------------
(* The builder: type expression, src/expression.go.  An expression is     *)
(* [query, currentSection, panicked]; panicked records an index out of    *)
(* range (the -1 index of an empty list).                                  *)

ZeroQuery == Query(<<>>, <<>>, <<>>, <<>>, FALSE, 0)

ZeroExpression == [query |-> ZeroQuery, currentSection |-> "", panicked |-> FALSE]

ZeroFilter == [Column |-> "", Operator |-> "", Value |-> NilVal]

Panic(e) == [e EXCEPT !.panicked = TRUE]

\* the field of Query that currentSection names, "" if none
SectionField(section) ==
    CASE section = "columns"  -> "Columns"
      [] section = "group by" -> "GroupBy"
      [] section = "order by" -> "OrderBy"
      [] OTHER -> ""

\* expression.AddColumn, lines 13-22
AddColumn_AlwaysColumns(e) ==
    [e EXCEPT !.query.Columns = Append(@, ColumnDesc("", ""))]

AddColumn(e) ==
    LET f == SectionField(e.currentSection) IN
    IF f = "" THEN e
    ELSE [e EXCEPT !.query[f] = Append(@, ColumnDesc("", ""))]

\* expression.SetColumnName, lines 24-33
SetColumnName(e, name) ==
    LET f == SectionField(e.currentSection) IN
    IF f = "" THEN e
    ELSE IF Len(e.query[f]) = 0 THEN Panic(e)
    ELSE [e EXCEPT !.query[f][Len(e.query[f])].Name = name]

\* expression.SetColumnAggregate, lines 35-44
SetColumnAggregate_AsName(e, aggregate) ==
    LET f == SectionField(e.currentSection) IN
    IF f = "" THEN e
    ELSE IF Len(e.query[f]) = 0 THEN Panic(e)
    ELSE [e EXCEPT !.query[f][Len(e.query[f])].Name = aggregate]

SetColumnAggregate(e, aggregate) ==
    LET f == SectionField(e.currentSection) IN
    IF f = "" THEN e
    ELSE IF Len(e.query[f]) = 0 THEN Panic(e)
    ELSE [e EXCEPT !.query[f][Len(e.query[f])].Aggregate = aggregate]

\* expression.AddFilter, lines 46-48
AddFilter(e) == [e EXCEPT !.query.Filters = Append(@, ZeroFilter)]

\* the assignments to e.query.Filters[len(e.query.Filters)-1]
SetLastFilter(e, field, v) ==
    IF Len(e.query.Filters) = 0 THEN Panic(e)
    ELSE [e EXCEPT !.query.Filters[Len(e.query.Filters)][field] = v]

\* expression.SetFilterColumn, lines 50-52
SetFilterColumn(e, column) == SetLastFilter(e, "Column", column)

\* expression.SetFilterOperator, lines 54-56
SetFilterOperator(e, operator) == SetLastFilter(e, "Operator", operator)

\* expression.SetFilterValueFloat, lines 58-61
SetFilterValueFloat(e, value) ==
    LET f == ParseFloat(value) IN SetLastFilter(e, "Value", FloatVal(f.m, f.e))

\* expression.SetFilterValueInteger, lines 63-66
SetFilterValueInteger(e, value) ==
    SetLastFilter(e, "Value", IntVal(ParseInt(value).v))

\* expression.SetFilterValueString, lines 68-70
SetFilterValueString(e, value) ==
    SetLastFilter(e, "Value", StrVal(Join(Trim(value, "\""))))

\* expression.SetDescending, lines 72-74
SetDescending(e) == [e EXCEPT !.query.Descending = TRUE]

\* expression.SetLimit, lines 76-78
SetLimit(e, num) == [e EXCEPT !.query.Limit = Atoi(num).v]

\* parser.Execute, src/grammar.peg.go lines 324-369: the switch on one token.
\* x is [e, text]: the expression and the local text.
ExecuteSwitch(b, x, token) ==
    LET r == token.pegRule
        e == x.e
        text == x.text
        to(e2) == [x EXCEPT !.e = e2]
    IN CASE r = "PegText"  -> [x EXCEPT !.text = Slice(b, token.begin, token.end)]
         [] r = "Action0"  -> to([e EXCEPT !.currentSection = "columns"])
         [] r = "Action1"  -> to([e EXCEPT !.currentSection = "group by"])
         [] r = "Action2"  -> to([e EXCEPT !.currentSection = "order by"])
         [] r = "Action3"  -> to(SetLimit(e, text))
         [] r = "Action4"  -> to(AddColumn(e))
         [] r = "Action5"  -> to(SetColumnName(e, Join(text)))
         [] r = "Action6"  -> to(SetColumnName(e, Join(text)))
         [] r = "Action7"  -> to(SetColumnAggregate(e, Join(text)))
         [] r = "Action8"  -> to(SetColumnName(e, Join(text)))
         [] r = "Action9"  -> to(AddFilter(e))
         [] r = "Action10" -> to(SetFilterColumn(e, Join(text)))
         [] r = "Action11" -> to(SetFilterOperator(e, Join(text)))
         [] r = "Action12" -> to(SetFilterValueFloat(e, text))
         [] r = "Action13" -> to(SetFilterValueInteger(e, text))
         [] r = "Action14" -> to(SetFilterValueString(e, text))
         [] r = "Action15" -> to(SetDescending(e))
         [] OTHER -> x

\* parser.Execute: the loop over the tokens from the i-th on
RECURSIVE ExecuteFrom(_, _, _, _)
ExecuteFrom(b, x, toks, i) ==
    IF i > Len(toks) \/ x.e.panicked THEN x
    ELSE ExecuteFrom(b, ExecuteSwitch(b, x, toks[i]), toks, i + 1)

----------------------------------------------------------------------------
(* Parse, src/expression.go lines 80-91: p.Init(), p.Parse(), p.Execute(). *)

ParseReturned(isNil, q, err) == [nilQuery |-> isNil, query |-> q, err |-> err]

ErrParse == "parse error"

\* lines 81-88: p.Init() and p.Parse(); a parse error is returned at once
ParseText ==
    /\ ppc = "parse"
    /\ LET r == parse(Buffer) IN
         /\ max' = r.max
         /\ IF r.ok
            THEN /\ tokens' = r.toks
                 /\ ppc' = "execute"
                 /\ UNCHANGED pret
            ELSE /\ tokens' = <<>>
                 /\ ppc' = "done"
                 /\ pret' = ParseReturned(TRUE, ZeroQuery, ErrParse)
    /\ ti' = 1
    /\ UNCHANGED <<execVars, callVars, desc, form, Buffer, px>>

\* line 89, p.Execute(): one turn of the loop over p.Tokens()
ExecuteToken ==
    /\ ppc = "execute"
    /\ ti <= Len(tokens)
    /\ px' = ExecuteSwitch(ResetBuffer(Buffer), px, tokens[ti])
    /\ ti' = ti + 1
    /\ ppc' = IF px'.e.panicked THEN "panic" ELSE "execute"
    /\ UNCHANGED <<execVars, callVars, desc, form, Buffer, tokens, max, pret>>

\* line 90: return &p.query, nil
ReturnQuery ==
    /\ ppc = "execute"
    /\ ti > Len(tokens)
    /\ pret' = ParseReturned(FALSE, px.e.query, ErrNil)
    /\ ppc' = "done"
    /\ UNCHANGED <<execVars, callVars, desc, form, Buffer, tokens, max, ti, px>>

----------------------------------------------------------------------------
(* The query texts Parse is given: the clauses SELECT, WHERE, GROUP BY,   *)
(* ORDER BY [DESC], LIMIT in that order, each optional, written from a    *)
(* description of the clauses.                                            *)

\* a condition as written: column, operator, literal, and what it denotes:
\* kind "number" is a literal of an optional sign and digits, the integer
\* num; kind "float" a literal with a point or an exponent, num * 10^exp;
\* kind "string" a quoted literal, the string str; parens is the number of
\* pairs of parentheses written around the condition
Cond(column, operator, literal, kind, num, str) ==
    [Column |-> column, Operator |-> operator, literal |-> literal,
     kind |-> kind, num |-> num, exp |-> 0, str |-> str, parens |-> 0]

Wrapped(c, n) == [c EXCEPT !.parens = n]

FloatCond(column, operator, literal, num, exp) ==
    [Cond(column, operator, literal, "float", num, "") EXCEPT !.exp = exp]

ColumnPool ==
    << ColumnDesc("a", ""), ColumnDesc("b", "min"), ColumnDesc("c_1", ""),
       ColumnDesc("SELECTED", "sum") >>

CondPool ==
    << Cond("foo", "=", "1", "number", 1, ""),
       Cond("bar", "<=", "-20", "number", -20, ""),
       Cond("baz", "matches", "\"x y\"", "string", 0, "x y"),
       Cond("id", ">", "+7", "number", 7, "") >>

\* a LIMIT clause as written: the number's text and the number; no clause
\* is the empty text
Limit(text, num) == [text |-> text, num |-> num]

NoLimit == Limit("", 0)

LimitPool == { Limit("10", 10), Limit("007", 7) }

\* the n columns of a clause, taken from the pool at an offset
PoolColumns(offset, n) ==
    [i \in 1..n |-> ColumnPool[((offset + i - 1) % Len(ColumnPool)) + 1]]

PoolConds(n) == [i \in 1..n |-> CondPool[((i - 1) % Len(CondPool)) + 1]]

Star == <<ColumnDesc("*", "")>>

\* the descriptions with lists of n columns in the clauses that are written
DescriptionsOf(n) ==
    { [Columns |-> c, Filters |-> PoolConds(w), GroupBy |-> g,
       OrderBy |-> o, Descending |-> d, limit |-> l] :
        c \in {<<>>, Star, PoolColumns(0, n)},
        w \in 0..MaxConds,
        g \in {<<>>, PoolColumns(1, n)},
        o \in {<<>>, PoolColumns(2, n)},
        d \in BOOLEAN,
        l \in {NoLimit} \cup LimitPool }

Descriptions == UNION {DescriptionsOf(n) : n \in 1..MaxColumns}

\* how a text is written: the case of the keywords, and the white space
\* between the clauses (sp), after a keyword (kw), around an operator (op),
\* inside GROUP BY and ORDER BY (by), around a parenthesis (par), before
\* and after the clauses (edge), and the separators of the lists
Style(upper, sp, kw, op, by, par, edge, comma, condSep) ==
    [upper |-> upper, sp |-> sp, kw |-> kw, op |-> op, by |-> by, par |-> par,
     edge |-> edge, comma |-> comma, condSep |-> condSep]

PlainStyle == Style(TRUE, " ", " ", " ", " ", "", "", ", ", ", ")

Styles ==
    { PlainStyle,
      Style(FALSE, "\n\t ", "\n\t ", " ", " ", "", "", " ,", " ") }

\* what is written after the clauses: the text, and the place in the order
\* of the clauses of the clause it starts (SELECT 1, WHERE 2, GROUP BY 3,
\* ORDER BY 4, LIMIT 5), 0 for text that starts no clause, 6 for none
After(text, rank) == [text |-> text, rank |-> rank]

NoTail == After("", 6)

\* the style of a text and what is written after its clauses
Form(st, tail) == [st |-> st, tail |-> tail]

RenderColumn(c, st) ==
    IF c.Aggregate = "" THEN c.Name
    ELSE c.Aggregate \o st.par \o "(" \o st.par \o c.Name \o st.par \o ")"

RECURSIVE RenderList(_, _)
RenderList(items, sep) ==
    IF Len(items) = 0 THEN ""
    ELSE IF Len(items) = 1 THEN items[1]
    ELSE items[1] \o sep \o RenderList(Tail(items), sep)

\* n pairs of parentheses around a text, white space ws around each
RECURSIVE Parens(_, _, _)
Parens(text, n, ws) ==
    IF n = 0 THEN text
    ELSE ws \o "(" \o ws \o Parens(text, n - 1, ws) \o ws \o ")" \o ws

RenderCond(c, st) ==
    Parens(c.Column \o st.op \o c.Operator \o st.op \o c.literal, c.parens, st.par)

RenderColumns(cols, st) == RenderList([i \in 1..Len(cols) |-> RenderColumn(cols[i], st)], st.comma)

Render(d, st) ==
    LET sel == IF Len(d.Columns) = 0 THEN <<>>
               ELSE << (IF st.upper THEN "SELECT" ELSE "select") \o st.kw
                       \o RenderColumns(d.Columns, st) >>
        whe == IF Len(d.Filters) = 0 THEN <<>>
               ELSE << (IF st.upper THEN "WHERE" ELSE "where") \o st.kw
                       \o RenderList([i \in 1..Len(d.Filters) |-> RenderCond(d.Filters[i], st)],
                                     st.condSep) >>
        grp == IF Len(d.GroupBy) = 0 THEN <<>>
               ELSE << (IF st.upper THEN "GROUP" ELSE "group") \o st.by
                       \o (IF st.upper THEN "BY" ELSE "by") \o st.kw
                       \o RenderColumns(d.GroupBy, st) >>
        ord == IF Len(d.OrderBy) = 0 THEN <<>>
               ELSE << (IF st.upper THEN "ORDER" ELSE "order") \o st.by
                       \o (IF st.upper THEN "BY" ELSE "by") \o st.kw
                       \o RenderColumns(d.OrderBy, st)
                       \o (IF d.Descending
                           THEN st.sp \o (IF st.upper THEN "DESC" ELSE "desc")
                           ELSE "") >>
        lim == IF d.limit = NoLimit THEN <<>>
               ELSE << (IF st.upper THEN "LIMIT" ELSE "limit") \o st.kw \o d.limit.text >>
    IN st.edge \o RenderList(sel \o whe \o grp \o ord \o lim, st.sp) \o st.edge

\* the text of a description in a form
Written(d, f) == Chars(Render(d, f.st) \o f.tail.text)

\* p := &parser{Buffer: query}: nothing parsed, nothing built
NewParser ==
    /\ ppc = "parse"
    /\ tokens = <<>>
    /\ max = token32("Unknown", 0, 0)
    /\ ti = 1
    /\ px = [e |-> ZeroExpression, text |-> <<>>]
    /\ pret = ParseReturned(TRUE, ZeroQuery, ErrNil)

ParseEntry ==
    /\ desc \in {d \in Descriptions : d.Descending => Len(d.OrderBy) > 0}
    /\ form \in {Form(st, NoTail) : st \in Styles}
    /\ Buffer = Written(desc, form)
    /\ NewParser

NextParse ==
    \/ ParseText
    \/ ExecuteToken
    \/ ReturnQuery

----------------------------------------------------------------------------
(* More query texts: literals of every kind, names spelled like keywords, *)
(* '*' in every list, white space of every kind, and texts with something *)
(* written after the clauses.                                             *)

Description(columns, filters, groupBy, orderBy, descending, limit) ==
    [Columns |-> columns, Filters |-> filters, GroupBy |-> groupBy,
     OrderBy |-> orderBy, Descending |-> descending, limit |-> limit]

\* SELECT * WHERE the conditions
StarWhere(conds) == Description(Star, conds, <<>>, <<>>, FALSE, NoLimit)

\* SELECT the columns
Select(columns) == Description(columns, <<>>, <<>>, <<>>, FALSE, NoLimit)

TightStyle == Style(FALSE, " ", " ", "", " ", "", "", ",", ",")

FloatPool ==
    { FloatCond("a", "<", "1.5", 15, -1),
      FloatCond("a", "=", "-2.5e3", -25, 2),
      FloatCond("a", ">=", "1E2", 1, 2),
      FloatCond("a", "!=", "+0.25", 25, -2),
      FloatCond("a", ">", "3e-2", 3, -2),
      FloatCond("a", "=", "12.50", 125, -1),
      FloatCond("a", "<=", "1.0", 1, 0),
      FloatCond("a", "=", "-10.5E+1", -105, 0) }

IntegerPool ==
    { Cond("n", "=", "2", "number", 2, ""),
      Cond("n", "!=", "-13", "number", -13, ""),
      Cond("n", ">", "+40", "number", 40, ""),
      Cond("n", "<", "00", "number", 0, "") }

\* one quoted segment: the literal, and the characters between its quotes
StringPool ==
    { Cond("s", "=", "\"\"", "string", 0, ""),
      Cond("s", "=", "\"ab\"", "string", 0, "ab"),
      Cond("s", "matches", "\"a\\\"b\"", "string", 0, "a\\\"b"),
      Cond("s", "=", "\"\\\"a\"", "string", 0, "\\\"a"),
      Cond("s", "=", "\"a\\\"\"", "string", 0, "a\\\""),
      Cond("s", "=", "\"\\n\\x41\\101\\u00e9\\\\\"", "string", 0, "\\n\\x41\\101\\u00e9\\\\"),
      Cond("s", "!=", "\"select *\"", "string", 0, "select *") }

\* adjacent quoted segments: the literal, and the segments' contents together
SegmentsPool ==
    { Cond("s", "=", "\"ab\"\"cd\"", "strings", 0, "abcd"),
      Cond("s", "=", "\"\"\"\"", "strings", 0, ""),
      Cond("s", "=", "\"a\"\"\"", "strings", 0, "a"),
      Cond("s", "=", "\"a\"\"b\"\"c\"", "strings", 0, "abc") }

LiteralPool == FloatPool \cup IntegerPool \cup StringPool \cup SegmentsPool

LiteralCases ==
    { [desc |-> StarWhere(conds), form |-> Form(st, NoTail)] :
        conds \in {<<c>> : c \in LiteralPool} \cup {<<c, CondPool[1]>> : c \in LiteralPool},
        st \in {PlainStyle, TightStyle} }

\* names spelled like the keywords, and names that only begin like one
NamePool ==
    { "LIMIT", "Desc", "SELECT", "Filters", "select", "desc", "limit", "filters",
      "limits", "descending", "group", "order" }

NameCases ==
    { [desc |-> d, form |-> Form(PlainStyle, NoTail)] :
        d \in {Select(<<ColumnDesc(n, "")>>) : n \in NamePool}
              \cup {Select(<<ColumnDesc("a", ""), ColumnDesc(n, "sum")>>) : n \in NamePool}
              \cup {StarWhere(<<Cond(n, "=", "1", "number", 1, "")>>) : n \in NamePool}
              \cup {Description(Star, <<>>, <<>>, <<ColumnDesc(n, "")>>, TRUE, NoLimit) :
                      n \in NamePool} }

\* '*' beside other columns, under GROUP BY and ORDER BY, and in an aggregate
StarCases ==
    { [desc |-> d, form |-> Form(PlainStyle, NoTail)] :
        d \in { Select(Star),
                Select(<<ColumnDesc("*", ""), ColumnDesc("a", "")>>),
                Select(<<ColumnDesc("a", ""), ColumnDesc("*", "")>>),
                Select(<<ColumnDesc("*", ""), ColumnDesc("*", "")>>),
                Description(Star, <<>>, Star, <<>>, FALSE, NoLimit),
                Description(Star, <<>>, <<>>, Star, TRUE, NoLimit),
                Description(<<ColumnDesc("a", "")>>, <<>>,
                            <<ColumnDesc("b", ""), ColumnDesc("*", "")>>, <<>>, FALSE, NoLimit),
                Select(<<ColumnDesc("*", "count")>>),
                Select(<<ColumnDesc("a", "*")>>),
                Description(Star, <<>>, <<ColumnDesc("*", "min")>>, <<>>, FALSE, NoLimit) } }

\* conditions in parentheses, alone and beside a plain condition, with and
\* without white space around the parentheses
ParenCases ==
    { [desc |-> StarWhere(conds), form |-> Form(st, NoTail)] :
        conds \in UNION { { <<Wrapped(c, n)>>, <<Wrapped(c, n), CondPool[1]>>,
                            <<CondPool[2], Wrapped(c, n)>> } :
                          c \in { FloatCond("a", "<", "1.5", 15, -1),
                                  Cond("n", "!=", "-13", "number", -13, ""),
                                  Cond("s", "=", "\"ab\"", "string", 0, "ab") },
                          n \in 0..MaxParens },
        st \in { PlainStyle, TightStyle, [PlainStyle EXCEPT !.par = " "],
                 [TightStyle EXCEPT !.par = "\t\r\n"] } }

\* the descriptions written in many styles and with tails
SampleDescriptions ==
    { Description(PoolColumns(0, 2), PoolConds(2), PoolColumns(1, 2), PoolColumns(2, 2),
                  TRUE, Limit("10", 10)),
      Description(Star, PoolConds(1), <<>>, <<>>, FALSE, Limit("007", 7)),
      Description(Star, <<>>, PoolColumns(1, 1), <<>>, FALSE, NoLimit),
      Description(<<>>, PoolConds(2), <<>>, PoolColumns(0, 2), FALSE, NoLimit),
      Description(PoolColumns(1, 1), <<>>, <<>>, <<>>, FALSE, NoLimit),
      Description(<<>>, <<>>, <<>>, <<>>, FALSE, NoLimit) }

\* runs of space, tab, CR, LF and CRLF, and none
SpaceStyles ==
    { Style(TRUE, "\t", "\t", "\t", " ", "\t", "\t", "\t,\t", "\t,\t"),
      Style(FALSE, "\r\n", "\r\n", "\r\n", " ", "\r\n", "\r\n", "\r\n,\r\n", "\r\n"),
      Style(TRUE, "\r", "\r", "\r", " ", "\r", "\r", ",\r", "\r"),
      Style(FALSE, "\n", "\n", "\n", " ", "\n", "\n", "\n,", ",\n"),
      Style(TRUE, " ", "", "", " ", "", "", ",", ","),
      Style(FALSE, " \t\r\n\r \n", "  ", " \t", " ", " ", "\n \r\n", " \t,\r\n", "\r \n") }

\* GROUP BY and ORDER BY written with something else than one space inside
BrokenByStyles ==
    { [PlainStyle EXCEPT !.by = by] : by \in {"", "  ", "\t", "\n", "\r\n"} }
    \cup { [TightStyle EXCEPT !.by = "\t"] }

SpaceCases ==
    { [desc |-> d, form |-> Form(st, NoTail)] :
        d \in SampleDescriptions, st \in SpaceStyles \cup BrokenByStyles }

\* what is written after the clauses
Tails ==
    { After(" foo", 0), After(" 12", 0), After(" = 1", 0), After(")", 0),
      After(" SELECT z", 1), After(" WHERE y = 2", 2), After(" GROUP BY z", 3),
      After(" ORDER BY z", 4), After(" LIMIT 3", 5), After(" \t\r\n", 6) }

TailCases ==
    { [desc |-> d, form |-> Form(st, t)] :
        d \in SampleDescriptions, st \in {PlainStyle}, t \in Tails }

Cases ==
    LiteralCases \cup NameCases \cup StarCases \cup SpaceCases \cup TailCases \cup ParenCases

TextsEntry ==
    /\ \E c \in Cases : desc = c.desc /\ form = c.form
    /\ Buffer = Written(desc, form)
    /\ NewParser

----------------------------------------------------------------------------
(* Several calls of Parse, src/expression.go lines 80-91.  Each call makes *)
(* its parser object (p := &parser{Buffer: query}); p.Init() makes the     *)
(* object's rules, token tree, position and max.  A call's steps are those *)
(* of ParseText, ExecuteToken and ReturnQuery, on its own object.          *)

Callers == {1, 2, 3}

\* the parser object of call c: each call allocates its own
Own_Global(c) == 1

Own(c) == c

\* a call before its first statement; seen is a history, the calls that
\* took a step while this one was between its first step and its return
CallerStart(in) ==
    [in |-> in, pc |-> "start", ti |-> 1, text |-> <<>>,
     ret |-> ParseReturned(TRUE, ZeroQuery, ErrNil), seen |-> {}]

\* a parser object: Buffer, the tokens, max and the embedded expression
ParserObject(buffer, toks, mx, e) ==
    [Buffer |-> buffer, tokens |-> toks, max |-> mx, e |-> e]

NoParser == ParserObject(<<>>, <<>>, token32("Unknown", 0, 0), ZeroExpression)

\* history: call c took a step
Saw(cs, c) ==
    [d \in Callers |->
        IF d # c /\ cs[d].pc \in {"execute", "panic"}
        THEN [cs[d] EXCEPT !.seen = @ \cup {c}]
        ELSE cs[d]]

\* lines 81-88 of call c: the new parser, p.Init() and p.Parse()
CallParse(c) ==
    /\ callers[c].pc = "start"
    /\ LET r == parse(callers[c].in) IN
         /\ heap' = [heap EXCEPT ![Own(c)] =
                        ParserObject(callers[c].in, IF r.ok THEN r.toks ELSE <<>>,
                                     r.max, ZeroExpression)]
         /\ callers' = Saw([callers EXCEPT
                               ![c].pc = IF r.ok THEN "execute" ELSE "done",
                               ![c].ret = IF r.ok THEN @
                                          ELSE ParseReturned(TRUE, ZeroQuery, ErrParse)], c)
    /\ UNCHANGED <<execVars, parseVars>>

\* line 89 of call c, p.Execute(): one turn of the loop over p.Tokens()
CallExecuteToken(c) ==
    /\ callers[c].pc = "execute"
    /\ callers[c].ti <= Len(heap[Own(c)].tokens)
    /\ LET p == heap[Own(c)]
           x == ExecuteSwitch(ResetBuffer(p.Buffer), [e |-> p.e, text |-> callers[c].text],
                              p.tokens[callers[c].ti])
       IN /\ heap' = [heap EXCEPT ![Own(c)].e = x.e]
          /\ callers' = Saw([callers EXCEPT
                                ![c].text = x.text,
                                ![c].ti = @ + 1,
                                ![c].pc = IF x.e.panicked THEN "panic" ELSE "execute"], c)
    /\ UNCHANGED <<execVars, parseVars>>

\* line 90 of call c: return &p.query, nil
CallReturn(c) ==
    /\ callers[c].pc = "execute"
    /\ callers[c].ti > Len(heap[Own(c)].tokens)
    /\ callers' = Saw([callers EXCEPT
                          ![c].ret = ParseReturned(FALSE, heap[Own(c)].e.query, ErrNil),
                          ![c].pc = "done"], c)
    /\ UNCHANGED <<execVars, parseVars, heap>>

\* the inputs of the calls
CallTexts == {Chars("LIMIT 5"), Chars(""), Chars("x")}

CallsEntry ==
    /\ callers \in {[c \in Callers |-> CallerStart(ins[c])] : ins \in [Callers -> CallTexts]}
    /\ heap = [c \in Callers |-> NoParser]

CallsIdle ==
    /\ callers = [c \in Callers |-> CallerStart(<<>>)]
    /\ heap = [c \in Callers |-> NoParser]

NextCalls ==
    \/ \E c \in Callers : CallParse(c)
    \/ \E c \in Callers : CallExecuteToken(c)
    \/ \E c \in Callers : CallReturn(c)

----------------------------------------------------------------------------
(* The queries Execute is given.                                            *)

ColumnLists ==
    { <<>>,
      <<ColumnDesc("*", "")>>,
      <<ColumnDesc("*", "min")>>,
      <<ColumnDesc("foo", "")>>,
      <<ColumnDesc("*", ""), ColumnDesc("foo", "")>> }

SideLists == { <<>>, <<ColumnDesc("foo", "")>> }

FilterSet ==
    { FilterDesc("id", ">", IntVal(2)),
      FilterDesc("a", "=", IntVal(1)) }

Queries ==
    { Query(c, g, f, o, d, l) :
        c \in ColumnLists, g \in SideLists, f \in SeqsUpTo(FilterSet, MaxFilters),
        o \in SideLists, d \in {FALSE}, l \in -1..MaxLimit }

InitExec ==
    /\ query \in Queries
    /\ pc = "start"
    /\ cur = NoCursor
    /\ fi = 1
    /\ resultRows = <<>>
    /\ ret = Returned(TRUE, <<>>, ErrNil)
    /\ calls = <<>>
    /\ visited = <<>>
    /\ evals = <<>>

ParseIdle ==
    /\ desc = [Columns |-> <<>>, Filters |-> <<>>, GroupBy |-> <<>>, OrderBy |-> <<>>,
               Descending |-> FALSE, limit |-> NoLimit]
    /\ form = Form(PlainStyle, NoTail)
    /\ Buffer = <<>>
    /\ ppc = "idle"
    /\ tokens = <<>>
    /\ max = token32("Unknown", 0, 0)
    /\ ti = 1
    /\ px = [e |-> ZeroExpression, text |-> <<>>]
    /\ pret = ParseReturned(TRUE, ZeroQuery, ErrNil)

ExecIdle ==
    /\ query = ZeroQuery
    /\ pc = "idle"
    /\ cur = NoCursor
    /\ fi = 1
    /\ resultRows = <<>>
    /\ ret = Returned(TRUE, <<>>, ErrNil)
    /\ calls = <<>>
    /\ visited = <<>>
    /\ evals = <<>>

Init == InitExec /\ ParseIdle /\ CallsIdle

Next ==
    \/ RejectShape
    \/ OpenCursor
    \/ ValidateOpened
    \/ CallNext
    \/ EvalFilter
    \/ AppendRow
    \/ CheckErr

Spec == Init /\ [][Next]_vars

\* Execute keeps running: a step that can be taken is taken
SpecLive == Init /\ [][Next]_vars /\ WF_vars(Next)

InitParse == ParseEntry /\ ExecIdle /\ CallsIdle

SpecParse == InitParse /\ [][NextParse]_vars

InitTexts == TextsEntry /\ ExecIdle /\ CallsIdle

SpecTexts == InitTexts /\ [][NextParse]_vars

InitCalls == CallsEntry /\ ExecIdle /\ ParseIdle

SpecCalls == InitCalls /\ [][NextCalls]_vars

----------------------------------------------------------------------------
(* Properties of Execute.                                                   *)

Done == pc = "done"

HasAggregate(q) == \E i \in 1..Len(q.Columns) : q.Columns[i].Aggregate # ""

\* SELECT * alone: no GROUP BY, no ORDER BY, no aggregate
Executable(q) ==
    /\ q.Columns = <<ColumnDesc("*", "")>>
    /\ q.GroupBy = <<>>
    /\ q.OrderBy = <<>>

ReturnedUnsupported == ret.nilResult /\ ret.err = ErrUnsupported

CallIdx(op) == {i \in DOMAIN calls : calls[i].op = op}

NumCalls(cs, op) == Cardinality({i \in DOMAIN cs : cs[i].op = op})

PassesAll(row) == \A i \in 1..Len(query.Filters) : FilterRow(query.Filters[i], row)

Qualifying(rows) == SelectSeq(rows, PassesAll)

\* the 1-based position in rows of the k-th row that passes every filter
KthQualifying(rows, k) ==
    CHOOSE i \in 1..Len(rows) :
        /\ PassesAll(rows[i])
        /\ Cardinality({j \in 1..i : PassesAll(rows[j])}) = k

Exhausted == \E i \in DOMAIN calls : calls[i] = Call("Next", "false")

\* C1: a query with GROUP BY, ORDER BY or an aggregate column makes Execute
\* return a nil Result and ErrUnsupported, for every Table, also one whose
\* NewCursor fails.
C1_UnsupportedForEveryTable ==
    (Done /\ (Len(query.GroupBy) > 0 \/ Len(query.OrderBy) > 0 \/ HasAggregate(query)))
        => ReturnedUnsupported

\* C2: whenever Execute returns ErrUnsupported it has not called NewCursor.
C2_UnsupportedBeforeOpen ==
    (Done /\ ret.err = ErrUnsupported) => CallIdx("NewCursor") = {}

\* C3: a projection that is not exactly one column named * makes Execute
\* return a nil Result and ErrUnsupported without any call on the table or a
\* cursor.
C3_NotSoleStarRejected ==
    (Done /\ ~(Len(query.Columns) = 1 /\ query.Columns[1].Name = "*"))
        => (ReturnedUnsupported /\ calls = <<>>)

C3_Witness ==
    /\ Done
    /\ Len(query.Columns) = 2
    /\ query.Columns[1].Name = "*"
    /\ query.GroupBy = <<>>
    /\ ReturnedUnsupported

\* C4: with Limit 0, an executable query over a cursor that ends without
\* error returns exactly the visited rows that pass every filter, in the
\* order visited.
C4_ResultIsQualifyingRows ==
    (Done /\ Executable(query) /\ query.Limit = 0 /\ Exhausted /\ cur.err = ErrNil)
        => (~ret.nilResult /\ ret.err = ErrNil /\ ret.rows = Qualifying(visited))

C4_Witness ==
    /\ Done
    /\ Executable(query)
    /\ query.Limit = 0
    /\ ret.err = ErrNil
    /\ Len(visited) = 3
    /\ Len(ret.rows) = 2
    /\ ret.rows[1] # ret.rows[2]
    /\ Len(query.Filters) = 2

\* C5: with Limit = L > 0 the Result holds the first min(L, n) qualifying
\* rows in cursor order (all n only if the cursor ended first); with Limit 0
\* it holds all n qualifying rows.
C5_LimitTruncates ==
    (Done /\ Executable(query) /\ query.Limit >= 0 /\ ~ret.nilResult)
        => IF query.Limit > 0
           THEN /\ ret.rows = Take(Qualifying(visited), query.Limit)
                /\ (Len(ret.rows) < query.Limit => Exhausted)
           ELSE /\ ret.rows = Qualifying(visited)
                /\ Exhausted

C5_Witness ==
    /\ Done
    /\ Executable(query)
    /\ query.Limit = 2
    /\ ~ret.nilResult
    /\ Len(ret.rows) = 2
    /\ Len(visited) = 3
    /\ ~Exhausted

\* C6: once the result has reached a positive Limit, Execute calls neither
\* Next nor Row again, and the Next calls made are as many as the cursor
\* index of the Limit-th qualifying row.
C6_AtLimit == query.Limit > 0 /\ Len(resultRows) = query.Limit

C6_StopsAtLimit ==
    /\ [](C6_AtLimit =>
            /\ Len(Qualifying(visited)) = query.Limit
            /\ NumCalls(calls, "Next") = KthQualifying(visited, query.Limit))
    /\ [][C6_AtLimit =>
            /\ NumCalls(calls', "Next") = NumCalls(calls, "Next")
            /\ NumCalls(calls', "Row") = NumCalls(calls, "Row")]_vars

C6_Witness ==
    /\ Done
    /\ C6_AtLimit
    /\ query.Limit = 2
    /\ Len(visited) = 3
    /\ NumCalls(calls, "Next") = 3

\* C7: a non-nil Err after the scan loop, ended by exhaustion or by the
\* limit, makes Execute return a nil Result and that error, whatever was
\* accumulated.
C7_TerminalErrorDiscardsRows ==
    \A i \in CallIdx("Err") :
        (Done /\ calls[i].ret # ErrNil) => (ret.nilResult /\ ret.rows = <<>> /\ ret.err = calls[i].ret)

C7_Witness ==
    /\ Done
    /\ \E i \in CallIdx("Err") : calls[i].ret = ErrScan
    /\ ~Exhausted
    /\ Len(resultRows) = 2
    /\ ret.nilResult

\* C8: when NewCursor fails for an executable query, Execute returns a nil
\* Result and exactly that error and calls no cursor method.
C8_OpenErrorVerbatim ==
    \A i \in CallIdx("NewCursor") :
        (Done /\ Executable(query) /\ calls[i].ret # ErrNil)
            => /\ ret.nilResult
               /\ ret.err = calls[i].ret
               /\ calls = <<calls[i]>>

C8_Witness ==
    /\ Done
    /\ Executable(query)
    /\ calls = <<Call("NewCursor", ErrOpen)>>
    /\ Len(query.Filters) > 0

\* C9 as stated: Err is called only after a Next call has returned false.
C9_ErrOnlyAfterNextFalse ==
    \A i \in CallIdx("Err") :
        \E j \in 1..(i - 1) : calls[j] = Call("Next", "false")

\* C9 as amended: Err is called only after the scan loop has ended, that is
\* after a Next call returned false or after the result reached a positive
\* Limit.
C9_ErrOnlyAfterLoopEnd ==
    \A i \in CallIdx("Err") :
        \/ \E j \in 1..(i - 1) : calls[j] = Call("Next", "false")
        \/ (query.Limit > 0 /\ Len(resultRows) = query.Limit)

C9_Witness ==
    /\ Done
    /\ CallIdx("Err") # {}
    /\ ~Exhausted
    /\ query.Limit = 1
    /\ Len(visited) = 2

\* the index of the first filter the row fails, Len + 1 if it passes all
FirstFail(row) ==
    LET failing == {i \in 1..Len(query.Filters) : ~FilterRow(query.Filters[i], row)} IN
    IF failing = {} THEN Len(query.Filters) + 1
    ELSE CHOOSE i \in failing : \A j \in failing : i <= j

\* the evaluations for the r-th visited row when its first n filters were tried
EvalsFor(r, n) ==
    [i \in 1..n |-> [row |-> r, filter |-> i, ok |-> i # FirstFail(visited[r])]]

\* the evaluations for the first r visited rows, each tried up to its first
\* failing filter
RECURSIVE EvalsUpTo(_)
EvalsUpTo(r) ==
    IF r = 0 THEN <<>>
    ELSE EvalsUpTo(r - 1) \o EvalsFor(r, Min(FirstFail(visited[r]), Len(query.Filters)))

\* C21: for each row the cursor yields the filters are evaluated in list
\* order up to the first that fails and none after it; the row is appended
\* to the result iff every filter passes.
C21_FiltersShortCircuit ==
    IF pc = "filter"
    THEN /\ evals = EvalsUpTo(Len(visited) - 1) \o EvalsFor(Len(visited), fi - 1)
         /\ \A i \in 1..(fi - 1) : FilterRow(query.Filters[i], cur.row)
         /\ resultRows = Qualifying(SubSeq(visited, 1, Len(visited) - 1))
    ELSE /\ evals = EvalsUpTo(Len(visited))
         /\ pc \in {"next", "err", "done"} => resultRows = Qualifying(visited)

\* Execute has returned: the first row failed the first of two filters and
\* the second was not tried on it, the second row passed both
C21_Witness ==
    /\ Done
    /\ Len(query.Filters) = 2
    /\ Len(visited) = 2
    /\ evals = << [row |-> 1, filter |-> 1, ok |-> FALSE],
                  [row |-> 2, filter |-> 1, ok |-> TRUE],
                  [row |-> 2, filter |-> 2, ok |-> TRUE] >>
    /\ ~FilterRow(query.Filters[2], visited[1])
    /\ ret.rows = <<visited[2]>>

\* C22: a row appended to the result holds exactly the fields the cursor's
\* row lists, each with the value Get returns at that moment, and no later
\* step (the cursor advancing, its row changing, another append) changes a
\* row that is already in the result.
C22_RowsAreIndependentCopies ==
    [][ /\ Len(resultRows') \in {Len(resultRows), Len(resultRows) + 1}
        /\ \A i \in 1..Len(resultRows) : resultRows'[i] = resultRows[i]
        /\ Len(resultRows') = Len(resultRows) + 1 =>
              LET resRow == resultRows'[Len(resultRows')] IN
              /\ DOMAIN resRow = Fields(cur.row)
              /\ \A field \in Fields(cur.row) : resRow[field] = Get(cur.row, field).v
      ]_vars

\* two rows are in the result and the cursor stands on a third row with
\* other fields and values
C22_Witness ==
    /\ pc = "filter"
    /\ Len(resultRows) = 2
    /\ Len(visited) = 3
    /\ resultRows = SubSeq(visited, 1, 2)
    /\ resultRows[1] # resultRows[2]
    /\ Fields(cur.row) # Fields(resultRows[1])
    /\ cur.row = visited[3]

\* Execute is in the scan loop
Scanning == pc \in {"next", "filter"}

\* C27: Execute returns when the cursor's Next returns false after finitely
\* many calls, and when Limit > 0 and the cursor has yielded Limit
\* qualifying rows, also on a cursor that never ends; with Limit 0 on a
\* cursor whose Next never returns false it never returns.
C27_ReturnsOrRunsForever ==
    /\ [](pc = "start" => <>(Done \/ cur.open))
    /\ []((cur.open /\ ~cur.endless) => <>Done)
    /\ []((Scanning /\ query.Limit > 0 /\ Len(Qualifying(visited)) >= query.Limit) => <>Done)
    /\ []((Scanning /\ cur.endless /\ query.Limit = 0) => []~Done)

\* Execute has returned the rows of a cursor that never ends, at the limit
C27_Witness ==
    /\ Done
    /\ cur.endless
    /\ query.Limit = 2
    /\ ~Exhausted
    /\ Len(visited) = 3
    /\ ~ret.nilResult /\ Len(ret.rows) = 2

\* the index of the last call of Next before the i-th call, 0 if none
LastNext(i) ==
    LET before == {j \in 1..(i - 1) : calls[j].op = "Next"} IN
    IF before = {} THEN 0 ELSE CHOOSE j \in before : \A k \in before : k <= j

\* C29: every call of Row comes after a call of Next that returned true and
\* before the following call of Next: never before the first Next, never
\* after Next has returned false.
C29_RowOnlyOnCurrentRow ==
    /\ \A i \in CallIdx("Row") :
          /\ LastNext(i) > 0
          /\ calls[LastNext(i)] = Call("Next", "true")
    /\ pc = "filter" => cur.hasRow

\* Execute has returned after the cursor ended: Row was called for the
\* filters and for the copy of two rows, and not after the last Next
C29_Witness ==
    /\ Done
    /\ Exhausted
    /\ Len(visited) = 2
    /\ Len(query.Filters) = 2
    /\ NumCalls(calls, "Row") = 4
    /\ NumCalls(calls, "Next") = 3
    /\ Len(ret.rows) = 1

----------------------------------------------------------------------------
(* Properties of Parse.                                                     *)

ParseDone == ppc = "done"

\* v * 10^e = n, for e >= 0 and for e < 0
RECURSIVE Scaled(_, _, _)
Scaled(m, e, n) ==
    IF e = 0 THEN m = n
    ELSE IF e > 0 THEN Scaled(m * 10, e - 1, n)
    ELSE Scaled(m, e + 1, n * 10)

\* the stored value v is what the written condition c denotes: the number,
\* whichever numeric type holds it, or the string
Denotes(v, c) ==
    IF c.kind \in {"number", "float"}
    THEN \/ v.t = "int" /\ c.exp = 0 /\ v.n = c.num
         \/ v.t = "float64" /\ Scaled(v.n, v.e - c.exp, c.num)
    ELSE v.t = "string" /\ v.s = c.str

HoldsConditions(filters, conds) ==
    /\ Len(filters) = Len(conds)
    /\ \A i \in 1..Len(conds) :
          /\ filters[i].Column = conds[i].Column
          /\ filters[i].Operator = conds[i].Operator
          /\ Denotes(filters[i].Value, conds[i])

\* C10: for every text made of the clauses SELECT, WHERE, GROUP BY,
\* ORDER BY [DESC], LIMIT in that order, each optional, Parse returns no
\* error and a Query whose Columns, GroupBy and OrderBy hold the listed
\* columns in text order, whose Filters hold the conditions in text order,
\* whose Limit is the LIMIT number (0 if absent) and whose Descending is
\* true exactly when DESC is written.
C10_ParseReflectsClauses ==
    /\ ppc # "panic"
    /\ ParseDone =>
          /\ pret.err = ErrNil
          /\ ~pret.nilQuery
          /\ pret.query.Columns = desc.Columns
          /\ pret.query.GroupBy = desc.GroupBy
          /\ pret.query.OrderBy = desc.OrderBy
          /\ HoldsConditions(pret.query.Filters, desc.Filters)
          /\ pret.query.Limit = desc.limit.num
          /\ pret.query.Descending = desc.Descending

\* Parse has returned for a text with all five clauses, two columns in
\* each list, an aggregate, two conditions, DESC and a LIMIT
C10_Witness ==
    /\ ParseDone
    /\ pret.err = ErrNil
    /\ Len(desc.Columns) = 2 /\ Len(desc.GroupBy) = 2 /\ Len(desc.OrderBy) = 2
    /\ \E i \in 1..2 : desc.GroupBy[i].Aggregate # ""
    /\ Len(desc.Filters) = 2
    /\ desc.Descending
    /\ desc.limit.num = 10
    /\ Len(pret.query.OrderBy) = 2 /\ Len(pret.query.Filters) = 2
    /\ pret.query.Limit = 10

\* Parse returned a Query
Parsed == ParseDone /\ pret.err = ErrNil

\* C11: a filter whose literal is an optional sign followed only by digits
\* is stored with an integer (Go int) Value, not a float.
C11_IntegerLiteralStoredAsInt ==
    Parsed =>
        \A i \in 1..Len(desc.Filters) :
            (desc.Filters[i].kind = "number" /\ i <= Len(pret.query.Filters))
                => pret.query.Filters[i].Value = IntVal(desc.Filters[i].num)

HasKind(d, kind) == \E i \in 1..Len(d.Filters) : d.Filters[i].kind = kind

\* C12: a filter whose literal has a decimal point or an exponent is stored
\* as a float64 whose value is that of the whole literal (sign, integer
\* part, fraction and exponent), never an integer.
C12_FloatLiteralStoredWhole ==
    (ParseDone /\ HasKind(desc, "float")) =>
        /\ Parsed
        /\ Len(pret.query.Filters) = Len(desc.Filters)
        /\ \A i \in 1..Len(desc.Filters) :
              desc.Filters[i].kind = "float" =>
                  /\ pret.query.Filters[i].Operator = desc.Filters[i].Operator
                  /\ pret.query.Filters[i].Value.t = "float64"
                  /\ Scaled(pret.query.Filters[i].Value.n,
                            pret.query.Filters[i].Value.e - desc.Filters[i].exp,
                            desc.Filters[i].num)

\* Parse has returned for a < 1.5 and for a literal with a sign, a fraction
\* and an exponent
C12_Witness ==
    /\ Parsed
    /\ Len(desc.Filters) = 2
    /\ desc.Filters[1].literal = "-2.5e3"
    /\ pret.query.Filters[1].Value = FloatVal(-25, 2)
    /\ pret.query.Filters[2].Column = "foo"

\* the place in the order of the clauses of the last clause of d, 0 if none
LastRank(d) ==
    IF d.limit # NoLimit THEN 5
    ELSE IF Len(d.OrderBy) > 0 THEN 4
    ELSE IF Len(d.GroupBy) > 0 THEN 3
    ELSE IF Len(d.Filters) > 0 THEN 2
    ELSE IF Len(d.Columns) > 0 THEN 1
    ELSE 0

\* what is written after the clauses of d is no clause that may follow them:
\* stray text, a repeated clause, or a clause out of order
Remains(d, t) == t.rank = 0 \/ (t.rank <= 5 /\ t.rank <= LastRank(d))

\* C13: when non-whitespace input remains after the clauses the grammar
\* matched (trailing text, a repeated clause, a clause out of order), Parse
\* returns a nil Query and an error, and no builder action runs.
C13_TrailingInputFails ==
    Remains(desc, form.tail) =>
        /\ ppc \in {"parse", "done"}
        /\ px = [e |-> ZeroExpression, text |-> <<>>]
        /\ ParseDone => (pret.nilQuery /\ pret.err # ErrNil)

\* Parse has returned for a text with a WHERE clause after the LIMIT clause
C13_Witness ==
    /\ ParseDone
    /\ pret.nilQuery /\ pret.err = ErrParse
    /\ form.tail.rank = 2
    /\ Len(desc.Filters) > 0 /\ desc.limit # NoLimit

\* strings.ToLower on the letters A-Z
LowerOf(c) ==
    IF c \in UpperAZ
    THEN LET i == CHOOSE j \in 1..26 : SubSeq("ABCDEFGHIJKLMNOPQRSTUVWXYZ", j, j) = c
         IN SubSeq("abcdefghijklmnopqrstuvwxyz", i, i)
    ELSE c

ToLower(str) == Join([i \in 1..Len(str) |-> LowerOf(SubSeq(str, i, i))])

Keywords == {"select", "group by", "filters", "order by", "desc", "limit"}

\* the names of the columns and of the filter columns of a Query
NamesOf(q) ==
    {q.Columns[i].Name : i \in 1..Len(q.Columns)}
    \cup {q.GroupBy[i].Name : i \in 1..Len(q.GroupBy)}
    \cup {q.OrderBy[i].Name : i \in 1..Len(q.OrderBy)}
    \cup {q.Filters[i].Column : i \in 1..Len(q.Filters)}

\* C14: no column name or filter column of a parsed Query is a keyword
\* (select, group by, filters, order by, desc, limit) compared without
\* regard to case.
C14_NoKeywordNames ==
    Parsed => \A n \in NamesOf(pret.query) : ToLower(n) \notin Keywords

ColumnsOf(q) ==
    {q.Columns[i] : i \in 1..Len(q.Columns)}
    \cup {q.GroupBy[i] : i \in 1..Len(q.GroupBy)}
    \cup {q.OrderBy[i] : i \in 1..Len(q.OrderBy)}

C16_SingleSegmentContent ==
    Parsed =>
        \A i \in 1..Len(desc.Filters) :
            (desc.Filters[i].kind = "string" /\ i <= Len(pret.query.Filters))
                => pret.query.Filters[i].Value = StrVal(desc.Filters[i].str)

\* C17: the stored Value of a filter written as several adjacent quoted
\* segments is the segments' contents one after the other, without any of
\* the delimiting quotes.
C17_SegmentsConcatenated ==
    Parsed =>
        \A i \in 1..Len(desc.Filters) :
            (desc.Filters[i].kind = "strings" /\ i <= Len(pret.query.Filters))
                => pret.query.Filters[i].Value = StrVal(desc.Filters[i].str)

\* C18: any two calls of Parse with the same input return equal results
\* (equal Queries, or both an error), run one after the other or
\* interleaved, whatever the other calls parse.
C18_SameInputSameResult ==
    /\ \A c \in Callers : callers[c].pc # "panic"
    /\ \A c, d \in Callers :
          (callers[c].pc = "done" /\ callers[d].pc = "done" /\ callers[c].in = callers[d].in)
              => callers[c].ret = callers[d].ret

\* two calls with the same input have returned the same Query, and a call
\* with another input took steps while each of them was running
C18_Witness ==
    /\ \A c \in Callers : callers[c].pc = "done"
    /\ callers[1].in = callers[3].in
    /\ callers[2].in # callers[1].in
    /\ 2 \in callers[1].seen /\ 2 \in callers[3].seen /\ 1 \in callers[2].seen
    /\ callers[1].ret = callers[3].ret
    /\ ~callers[1].ret.nilQuery /\ ~callers[2].ret.nilQuery
    /\ callers[1].ret.query # callers[2].ret.query

\* the Query q holds the clauses of the description d
Reflects(q, d) ==
    /\ q.Columns = d.Columns
    /\ q.GroupBy = d.GroupBy
    /\ q.OrderBy = d.OrderBy
    /\ HoldsConditions(q.Filters, d.Filters)
    /\ q.Limit = d.limit.num
    /\ q.Descending = d.Descending

\* the white space of the style is one space inside GROUP BY and ORDER BY,
\* or the description has neither clause
ByAsRequired(d, st) == st.by = " " \/ (Len(d.GroupBy) = 0 /\ Len(d.OrderBy) = 0)

\* C19: whatever runs of space, tab, CR, LF and CRLF (or none) are written
\* between the tokens, Parse returns the same Query; but GROUP BY and
\* ORDER BY are recognized with exactly one space between the two words
\* only, and Parse fails with anything else there.
C19_WhitespaceInsignificant ==
    (ParseDone /\ desc \in SampleDescriptions /\ form.tail.rank = 6) =>
        IF ByAsRequired(desc, form.st)
        THEN Parsed /\ ~pret.nilQuery /\ Reflects(pret.query, desc)
        ELSE pret.nilQuery /\ pret.err = ErrParse

\* Parse has returned the Query of a text with all five clauses whose white
\* space is CRLF throughout
C19_Witness ==
    /\ Parsed
    /\ form.st.sp = "\r\n" /\ form.st.op = "\r\n" /\ form.st.par = "\r\n"
    /\ Len(desc.Columns) = 2 /\ Len(desc.Filters) = 2 /\ Len(desc.GroupBy) = 2
    /\ Len(desc.OrderBy) = 2 /\ desc.Descending /\ desc.limit.num = 10
    /\ Reflects(pret.query, desc)

\* the tokens of ts whose span is not empty, by index
NonEmpty(ts) == {i \in 1..Len(ts) : ts[i].begin # ts[i].end}

Count(ts, rule) == Cardinality({i \in 1..Len(ts) : ts[i].pegRule = rule})

\* the columns of all clauses written with an aggregate
Aggregated(d) ==
    Cardinality({i \in 1..Len(d.Columns) : d.Columns[i].Aggregate # ""})
    + Cardinality({i \in 1..Len(d.GroupBy) : d.GroupBy[i].Aggregate # ""})
    + Cardinality({i \in 1..Len(d.OrderBy) : d.OrderBy[i].Aggregate # ""})

\* C23: the token list of a parse holds no token recorded inside an attempt
\* that failed: one AddFilter token per written condition, one AddColumn
\* token per listed column, one SetColumnAggregate token per aggregate, and
\* Parse returns one FilterDesc per condition and one ColumnDesc per column.
C23_NoPhantomEntries ==
    (ppc \in {"execute", "done"} /\ pret.err = ErrNil) =>
        /\ Count(tokens, "Action9") = Len(desc.Filters)
        /\ Count(tokens, "Action4") = Len(desc.Columns) + Len(desc.GroupBy) + Len(desc.OrderBy)
        /\ Count(tokens, "Action7") = Aggregated(desc)
        /\ ParseDone =>
              /\ Len(pret.query.Filters) = Len(desc.Filters)
              /\ Len(pret.query.Columns) = Len(desc.Columns)
              /\ Len(pret.query.GroupBy) = Len(desc.GroupBy)
              /\ Len(pret.query.OrderBy) = Len(desc.OrderBy)

\* Parse has returned for a text with a plain column, an aggregate and two
\* conditions; the recognizer recorded an AddFilter and a SetColumnAggregate inside attempts
\* it abandoned
C23_Witness ==
    /\ Parsed
    /\ Len(desc.Filters) = 2
    /\ Len(desc.Columns) = 2
    /\ desc.Columns[1].Aggregate = ""
    /\ Aggregated(desc) = 1
    /\ Len(pret.query.Filters) = 2
    /\ Count(parse(Buffer).adds, "Action9") > 2
    /\ Count(parse(Buffer).adds, "Action7") >= 2
    /\ Count(tokens, "Action7") = 1

\* the i-th column written in the clause is the i-th of the Query's list
\* with the written name and aggregate
StoredAs(list, written, i) ==
    /\ i <= Len(list)
    /\ list[i].Name = written[i].Name
    /\ list[i].Aggregate = written[i].Aggregate

\* C24: a column written f(x) is stored with Name x and Aggregate f in the
\* list of the clause it is written in, and a column written as a plain
\* identifier or as '*' with an empty Aggregate.
C24_ColumnStoredInItsSection ==
    ParseDone =>
        /\ Parsed
        /\ \A i \in 1..Len(desc.Columns) : StoredAs(pret.query.Columns, desc.Columns, i)
        /\ \A i \in 1..Len(desc.GroupBy) : StoredAs(pret.query.GroupBy, desc.GroupBy, i)
        /\ \A i \in 1..Len(desc.OrderBy) : StoredAs(pret.query.OrderBy, desc.OrderBy, i)

\* Parse has returned for SELECT * with an aggregate and a plain column
\* under GROUP BY and under ORDER BY; the aggregate alternative was tried
\* on the plain identifiers and abandoned
C24_Witness ==
    /\ Parsed
    /\ desc.Columns = <<ColumnDesc("*", "")>>
    /\ pret.query.Columns = <<ColumnDesc("*", "")>>
    /\ Len(desc.GroupBy) = 2 /\ Len(desc.OrderBy) = 2
    /\ pret.query.GroupBy = <<ColumnDesc("b", "min"), ColumnDesc("c_1", "")>>
    /\ pret.query.OrderBy = <<ColumnDesc("c_1", ""), ColumnDesc("SELECTED", "sum")>>
    /\ Count(parse(Buffer).adds, "Action7") > Count(tokens, "Action7")

\* C25: in the token list a successful parse hands to Execute, of any two tokens the one
\* earlier in the list has a begin offset less than or equal to the begin
\* offset of the later one.
C25_TokensOrderedByBegin ==
    (ppc = "execute" /\ ti = 1) =>
        \A i, j \in 1..Len(tokens) : i < j => tokens[i].begin <= tokens[j].begin

\* C25 as amended: the token list a successful parse hands to Execute is in
\* the order in which the rules finished: of any two tokens the earlier one ends no later
\* than the later one, and it either ends where the later one begins or
\* before, or lies inside the later one's span (a rule's token follows the
\* tokens of the rules it called); the last token is Query over the whole
\* text.
C25_TokensInCompletionOrder ==
    (ppc = "execute" /\ ti = 1) =>
        /\ \A i, j \in 1..Len(tokens) :
              i < j =>
                  /\ tokens[i].end <= tokens[j].end
                  /\ \/ tokens[i].end <= tokens[j].begin
                     \/ tokens[j].begin <= tokens[i].begin
        /\ tokens[Len(tokens)] = token32("Query", 0, Len(Buffer))

\* a parse has succeeded whose token list holds a token after one that
\* begins further right: the clause's token after the column's
C25_Witness ==
    /\ Parsed
    /\ Len(desc.Columns) = 2 /\ Len(desc.Filters) = 2
    /\ \E i, j \in 1..Len(tokens) :
          /\ i < j
          /\ tokens[i].pegRule = "Column" /\ tokens[j].pegRule = "ColumnExpr"
          /\ tokens[j].begin < tokens[i].begin
          /\ tokens[i].end <= tokens[j].end

\* what Parse returns for a text, in one step
ParseOf(text) ==
    LET r == parse(text) IN
    IF ~r.ok THEN ParseReturned(TRUE, ZeroQuery, ErrParse)
    ELSE ParseReturned(FALSE,
                       ExecuteFrom(ResetBuffer(text), [e |-> ZeroExpression, text |-> <<>>],
                                   r.toks, 1).e.query,
                       ErrNil)

\* the description with the parentheses around its conditions left out
Unwrapped(d) ==
    [d EXCEPT !.Filters = [i \in 1..Len(d.Filters) |-> Wrapped(d.Filters[i], 0)]]

InParens(d) == \E i \in 1..Len(d.Filters) : d.Filters[i].parens > 0

\* C26: a condition written inside any number of balanced parentheses, with
\* any white space around them, gives the Query of the text without the
\* parentheses: one FilterDesc for the condition, with the same column,
\* operator and value.
C26_ParenthesesUnwrap ==
    (ParseDone /\ InParens(desc)) =>
        /\ Parsed /\ ~pret.nilQuery
        /\ pret = ParseOf(Written(Unwrapped(desc), form))
        /\ Len(pret.query.Filters) = Len(desc.Filters)
        /\ \A i \in 1..Len(desc.Filters) :
              /\ pret.query.Filters[i].Column = desc.Filters[i].Column
              /\ pret.query.Filters[i].Operator = desc.Filters[i].Operator
              /\ pret.query.Filters[i].Value # NilVal

\* Parse has returned for a condition in two pairs of parentheses with tab
\* and line break around each, after a plain condition
C26_Witness ==
    /\ Parsed
    /\ Len(desc.Filters) = 2
    /\ desc.Filters[2].parens >= 2
    /\ desc.Filters[2].kind = "string"
    /\ form.st.par = "\t\r\n"
    /\ pret.query.Filters[2] = FilterDesc("s", "=", StrVal("ab"))
    /\ pret.query.Filters[1].Column = "bar"

\* the tokens that set currentSection, and those that write to the last
\* column and to the last filter
SectionActions == {"Action0", "Action1", "Action2"}
ColumnSetters == {"Action5", "Action6", "Action7", "Action8"}
FilterSetters == {"Action10", "Action11", "Action12", "Action13", "Action14"}

\* the index of the last token before the k-th whose rule is in set, 0 if none
LastBefore(ts, k, set) ==
    LET before == {i \in 1..(k - 1) : ts[i].pegRule \in set} IN
    IF before = {} THEN 0 ELSE CHOOSE i \in before : \A j \in before : j <= i

\* C28: for every text the recognizer accepts the builder never indexes an
\* empty list: in the token list a section is set before every AddColumn,
\* every SetColumnName and SetColumnAggregate follows an AddColumn of the
\* section then active, and every SetFilterColumn, SetFilterOperator and
\* SetFilterValue follows an AddFilter.
C28_BuilderNeverIndexesEmpty ==
    /\ ppc # "panic"
    /\ (ppc = "execute" /\ ti = 1) =>
          \A k \in 1..Len(tokens) :
              /\ tokens[k].pegRule = "Action4" => LastBefore(tokens, k, SectionActions) > 0
              /\ tokens[k].pegRule \in ColumnSetters =>
                    /\ LastBefore(tokens, k, SectionActions) > 0
                    /\ LastBefore(tokens, k, {"Action4"}) > LastBefore(tokens, k, SectionActions)
              /\ tokens[k].pegRule \in FilterSetters => LastBefore(tokens, k, {"Action9"}) > 0

\* Parse has returned for a text with columns in all three sections, an
\* aggregate among them, and conditions
C28_Witness ==
    /\ Parsed
    /\ form.st \in SpaceStyles
    /\ Len(pret.query.Columns) = 2 /\ Len(pret.query.GroupBy) = 2
    /\ Len(pret.query.OrderBy) = 2 /\ Len(pret.query.Filters) = 2
    /\ Count(tokens, "Action7") = 3
    /\ Count(tokens, "Action4") = 6

\* the text is empty or made of spaces, tabs and line breaks only
Blank(text) == \A i \in 1..Len(text) : text[i] \in {" ", "\t", "\r", "\n"}

\* C30: Parse of the empty text, or of a text of spaces, tabs and line
\* breaks only, returns no error and a Query with empty Columns, GroupBy,
\* Filters and OrderBy, Descending false and Limit 0.
C30_BlankTextGivesEmptyQuery ==
    Blank(Buffer) =>
        /\ ppc # "panic"
        /\ ParseDone =>
              /\ pret.err = ErrNil /\ ~pret.nilQuery
              /\ pret.query.Columns = <<>> /\ pret.query.GroupBy = <<>>
              /\ pret.query.Filters = <<>> /\ pret.query.OrderBy = <<>>
              /\ ~pret.query.Descending
              /\ pret.query.Limit = 0

\* Parse has returned for a text of blanks, tabs, carriage returns and line
\* feeds
C30_Witness ==
    /\ Parsed
    /\ Blank(Buffer)
    /\ {Buffer[i] : i \in 1..Len(Buffer)} = {" ", "\t", "\r", "\n"}
    /\ pret.query = ZeroQuery
    /\ Len(tokens) > 0

=============================================================================
